---- MODULE Spec2Model ----
(***************************************************************************)
(* Engagement store (agent/memory/database.py) and insight learner         *)
(* (agent/memory/learner.py) of the LinkedIn agent.                        *)
(*                                                                         *)
(* SQL REAL / Python float values are modelled as exact fractions          *)
(* [ok, n, d] in lowest terms; ok = FALSE stands for a raised              *)
(* ZeroDivisionError.  Rounding of IEEE doubles is not modelled.           *)
(***************************************************************************)
EXTENDS Integers, Sequences, FiniteSets, Bags, TLC

VARIABLES posts, metrics, insights, user_repos, now, call, hist, conns, score_in, score_out,
          configs, scheduler, user_data, linkedin

\* the bot's state outside the database: the ConfigStore files, the running
\* PostScheduler, Telegram's context.user_data and the posts on the platform
botVars == <<configs, scheduler, user_data, linkedin>>

vars == <<posts, metrics, insights, user_repos, now, call, hist, conns, score_in, score_out,
          botVars>>

\* ------------------------------------------------------------------ bounds

\* largest likes / comments / shares value drawn as an input
MaxCount == 3
\* number of update_insight calls in one run of SpecInsight
MaxCalls == 3
\* number of update_metrics calls in one run of SpecMetrics
MaxMetricCalls == 3
\* number of distinct repository urls offered to add_repo
NumUrls == 6
\* latest clock value
MaxTime == 2
\* number of posts created in one run of Spec
MaxPosts == 2
\* latest clock value in SpecFeed and SpecPick
FeedTime == 1
\* number of posts created in one run of SpecLearn
LearnPosts == 1
\* number of learn_from_post calls in one run of SpecLearn
MaxLearn == 2
\* number of process_all_pending calls in one run of SpecBatch
MaxBatchCalls == 2
\* largest sample_size built up in SpecTop and SpecRecs
MaxSamples == 3

\* ------------------------------------------------------- program constants

\* add_repo refuses when COUNT(*) >= 5
MaxRepos == 5
\* default of update_insight's sample_size parameter
DefaultSampleSize == 1

\* a NULL column / None: the empty option; Some(x) a set value
NULL == {}

Some(x) == {x}

\* ---------------------------------------------------------------- fractions

RECURSIVE GCD(_, _)
GCD(a, b) == IF b = 0 THEN a ELSE GCD(b, a % b)

\* the fraction n/d (n >= 0, d > 0) in lowest terms
Frac(n, d) == LET g == GCD(n, d) IN [ok |-> TRUE, n |-> n \div g, d |-> d \div g]

FInt(i) == [ok |-> TRUE, n |-> i, d |-> 1]

ZeroDivisionError == [ok |-> FALSE, n |-> 0, d |-> 1]

FMul(a, b) == IF ~a.ok \/ ~b.ok THEN ZeroDivisionError ELSE Frac(a.n * b.n, a.d * b.d)

FAdd(a, b) == IF ~a.ok \/ ~b.ok THEN ZeroDivisionError ELSE Frac(a.n * b.d + b.n * a.d, a.d * b.d)

\* Python's / : raises on a zero divisor
FDiv(a, b) ==
    IF ~a.ok \/ ~b.ok \/ b.n = 0 THEN ZeroDivisionError ELSE Frac(a.n * b.d, a.d * b.n)

FLe(a, b) == a.n * b.d <= b.n * a.d

\* Python's min(a, b): the first argument unless the second is strictly smaller
FMin(a, b) == IF ~a.ok \/ ~b.ok THEN ZeroDivisionError ELSE IF FLe(a, b) THEN a ELSE b

\* ------------------------------------------- InsightLearner: engagement score

calculate_engagement_score_no_branch(likes, comments, shares, impressions) ==
    LET engagement_rate ==
            FMul(FDiv(FInt(likes + comments * 3 + shares * 2), FInt(impressions)), FInt(100))
    IN  FMin(FInt(100), FMul(engagement_rate, FInt(10)))

calculate_engagement_score_swapped(likes, comments, shares, impressions) ==
    IF impressions = 0
    THEN FMin(FInt(100), FInt((likes + (comments * 2) + (shares * 3)) * 2))
    ELSE LET engagement_rate ==
                 FMul(FDiv(FInt(likes + comments * 2 + shares * 3), FInt(impressions)), FInt(100))
         IN  FMin(FInt(100), FMul(engagement_rate, FInt(10)))

calculate_engagement_score_no_cap(likes, comments, shares, impressions) ==
    IF impressions = 0
    THEN FInt((likes + (comments * 3) + (shares * 2)) * 2)
    ELSE FMul(FMul(FDiv(FInt(likes + comments * 3 + shares * 2), FInt(impressions)),
                   FInt(100)), FInt(10))

calculate_engagement_score(likes, comments, shares, impressions) ==
    IF impressions = 0
    THEN LET raw_score == likes + (comments * 3) + (shares * 2)
         IN  FMin(FInt(100), FInt(raw_score * 2))
    ELSE LET engagement_rate ==
                 FMul(FDiv(FInt(likes + comments * 3 + shares * 2), FInt(impressions)), FInt(100))
         IN  FMin(FInt(100), FMul(engagement_rate, FInt(10)))

\* impressions values drawn as inputs: none, tiny (rate clamps), and large
\* enough for the scaled rate to stay under 100
ImpressionValues == {0, 1, 10, 30, 70, 1000}

ScoreInputs ==
    [likes : 0..MaxCount, comments : 0..MaxCount, shares : 0..MaxCount,
     impressions : ImpressionValues]

NoScore == [ok |-> FALSE, n |-> 1, d |-> 1]

\* ------------------------------------------------------------ initial store

\* A table is the bag of its rows; the uuid4 primary keys of metrics, insights
\* and user_repos are never read and are left out of the rows.
\* the rows of tbl among `rows` (a WHERE clause picks them)
Where(tbl, rows) == [r \in rows |-> tbl[r]]

Count(tbl, rows) == BagCardinality(Where(tbl, rows))

Insert(tbl, row) == tbl (+) SetToBag({row})

\* ------------------------------------------------------- the bot's state

\* Telegram chat ids
Chats == {101, 102}

\* UserConfig(chat_id=chat_id): the fields the flows read; linkedin_connected
\* is what is_linkedin_connected() answers
NoConfig == [github_url |-> NULL, preferred_time |-> NULL, linkedin_connected |-> FALSE]

\* an empty context.user_data
NoUserData == [pending_post |-> NULL, pending_repo |-> NULL]

\* no config file, PostScheduler() constructed and not started (jobs: the
\* trigger time of each chat's job in the AsyncIOScheduler, job_ids: the keys
\* of PostScheduler._jobs), nothing posted
InitBot ==
    /\ configs = [c \in Chats |-> NoConfig]
    /\ scheduler = [running |-> FALSE, post_callback |-> FALSE,
                    jobs |-> [c \in Chats |-> NULL], job_ids |-> {}]
    /\ user_data = [c \in Chats |-> NoUserData]
    /\ linkedin = <<>>

InitStore ==
    /\ InitBot
    /\ posts = {}
    /\ metrics = EmptyBag
    /\ insights = EmptyBag
    /\ user_repos = EmptyBag
    /\ now = 0
    /\ call = [op |-> "init"]
    /\ hist = <<>>

storeVars == <<posts, metrics, insights, user_repos, now, call, hist, conns>>

\* ------------------------------------------------ SpecScore: the pure score

InitScore ==
    /\ InitStore
    /\ conns = <<>>
    /\ score_in \in ScoreInputs
    /\ score_out = NoScore

CalcScore ==
    /\ score_out = NoScore
    /\ score_out' = calculate_engagement_score(score_in.likes, score_in.comments,
                                               score_in.shares, score_in.impressions)
    /\ UNCHANGED <<score_in, storeVars, botVars>>

NextScore == CalcScore

SpecScore == InitScore /\ [][NextScore]_vars

Computed == score_out # NoScore

Raw(i) == i.likes + 3 * i.comments + 2 * i.shares

\* C3: for all non-negative likes, comments, shares, impressions the score is
\* a value in [0, 100]; no ZeroDivisionError is raised.
C3_ScoreInRange ==
    Computed =>
        /\ score_out.ok
        /\ score_out.n >= 0
        /\ score_out.d > 0
        /\ score_out.n <= 100 * score_out.d

\* C3 witness: the impressions = 0 branch (the would-be zero divisor) computed
\* a positive score below the cap.
C3_Witness ==
    /\ Computed
    /\ score_in.impressions = 0
    /\ Raw(score_in) > 0
    /\ score_out.ok
    /\ score_out.n < 100 * score_out.d

SameTriple(r, chat_id, insight_type, insight_key) ==
    /\ r.chat_id = chat_id
    /\ r.insight_type = insight_type
    /\ r.insight_key = insight_key

InsightRow(chat_id, insight_type, insight_key, score, sample_size, ts) ==
    [chat_id |-> chat_id, insight_type |-> insight_type, insight_key |-> insight_key,
     score |-> score, sample_size |-> sample_size, updated_at |-> ts]

UpsertInsight_adds_size(tbl, chat_id, insight_type, insight_key, score, sample_size, ts) ==
    LET hit == {r \in DOMAIN tbl : SameTriple(r, chat_id, insight_type, insight_key)}
        Set(r) == [r EXCEPT !.score = FDiv(FAdd(FMul(r.score, FInt(r.sample_size)), score),
                                           FInt(r.sample_size + sample_size)),
                            !.sample_size = r.sample_size + sample_size,
                            !.updated_at = ts]
    IN  IF Count(tbl, hit) = 0
        THEN Insert(tbl, InsightRow(chat_id, insight_type, insight_key, score, sample_size, ts))
        ELSE Where(tbl, DOMAIN tbl \ hit) (+) BagOfAll(Set, Where(tbl, hit))

UpsertInsight_halves(tbl, chat_id, insight_type, insight_key, score, sample_size, ts) ==
    LET hit == {r \in DOMAIN tbl : SameTriple(r, chat_id, insight_type, insight_key)}
        Set(r) == [r EXCEPT !.score = FDiv(FAdd(r.score, score), FInt(2)),
                            !.sample_size = r.sample_size + 1,
                            !.updated_at = ts]
    IN  IF Count(tbl, hit) = 0
        THEN Insert(tbl, InsightRow(chat_id, insight_type, insight_key, score, sample_size, ts))
        ELSE Where(tbl, DOMAIN tbl \ hit) (+) BagOfAll(Set, Where(tbl, hit))

\* INSERT INTO insights ... ON CONFLICT(chat_id, insight_type, insight_key)
\* DO UPDATE SET ...: the right-hand sides read the row as it was before the
\* statement, excluded.* is the row that was to be inserted
UpsertInsight(tbl, chat_id, insight_type, insight_key, score, sample_size, ts) ==
    LET hit == {r \in DOMAIN tbl : SameTriple(r, chat_id, insight_type, insight_key)}
        Set(r) == [r EXCEPT !.score = FDiv(FAdd(FMul(r.score, FInt(r.sample_size)), score),
                                           FInt(r.sample_size + 1)),
                            !.sample_size = r.sample_size + 1,
                            !.updated_at = ts]
    IN  IF Count(tbl, hit) = 0
        THEN Insert(tbl, InsightRow(chat_id, insight_type, insight_key, score, sample_size, ts))
        ELSE Where(tbl, DOMAIN tbl \ hit) (+) BagOfAll(Set, Where(tbl, hit))

\* Database.update_insight: one statement, committed on exit
update_insight(chat_id, insight_type, insight_key, score, sample_size) ==
    /\ insights' = UpsertInsight(insights, chat_id, insight_type, insight_key,
                                 score, sample_size, now)
    /\ call' = [op |-> "update_insight", chat_id |-> chat_id,
                insight_type |-> insight_type, insight_key |-> insight_key,
                score |-> score, sample_size |-> sample_size]

\* ------------------------------------------- SpecInsight: update_insight calls

\* the triples the calls are drawn from: they differ from the first in key,
\* in dimension and in owner
InsightTargets ==
    { <<"u1", "topic", "ai">>, <<"u1", "topic", "rust">>,
      <<"u1", "style", "with_code">>, <<"u2", "topic", "ai">> }

\* (non-integer scores arise from the division, e.g. 90 at size 3 then 60)
InsightScores == {FInt(90), FInt(60), FInt(30)}

\* the default and a non-default sample_size argument
SampleSizeArgs == {DefaultSampleSize, 3}

NoScoreInput == [likes |-> 0, comments |-> 0, shares |-> 0, impressions |-> 0]

InitDatabase ==
    /\ InitStore
    /\ conns = <<>>
    /\ score_in = NoScoreInput
    /\ score_out = NoScore

UpdateInsightCall ==
    /\ Len(hist) < MaxCalls
    /\ \E t \in InsightTargets, s \in InsightScores, n \in SampleSizeArgs :
           /\ update_insight(t[1], t[2], t[3], s, n)
           /\ hist' = Append(hist, [chat_id |-> t[1], insight_type |-> t[2],
                                    insight_key |-> t[3], score |-> s, sample_size |-> n])
    /\ UNCHANGED <<posts, metrics, user_repos, now, conns, score_in, score_out, botVars>>

NextInsight == UpdateInsightCall

SpecInsight == InitDatabase /\ [][NextInsight]_vars

\* the rows of table tbl that belong to triple t
RowsOf(tbl, t) == Where(tbl, {r \in DOMAIN tbl : SameTriple(r, t[1], t[2], t[3])})

OtherRows(tbl, t) == Where(tbl, {r \in DOMAIN tbl : ~SameTriple(r, t[1], t[2], t[3])})

\* C1: update_insight on a triple with no row inserts the given score and the
\* given sample size; on a triple with a row it sets score to
\* (old_score * old_size + score) / (old_size + 1) and sample_size to
\* old_size + 1 whatever the sample-size argument; no other row changes.
C1_UpsertContract ==
    [][call'.op = "update_insight" =>
        LET c == call'
            t == <<c.chat_id, c.insight_type, c.insight_key>>
            old == RowsOf(insights, t)
            new == RowsOf(insights', t)
        IN  /\ OtherRows(insights', t) = OtherRows(insights, t)
            /\ BagCardinality(new) = 1
            /\ old = EmptyBag =>
                 \A r \in DOMAIN new : r.score = c.score /\ r.sample_size = c.sample_size
            /\ \A o \in DOMAIN old : \A r \in DOMAIN new :
                 /\ r.sample_size = o.sample_size + 1
                 /\ r.score.ok
                 /\ r.score.n * o.score.d * c.score.d * (o.sample_size + 1)
                      = (o.score.n * o.sample_size * c.score.d + c.score.n * o.score.d)
                        * r.score.d
    ]_vars

\* C1 witness: an existing row was updated by a call whose sample-size
\* argument is not 1, while another triple holds a row.
C1_Witness ==
    /\ call.op = "update_insight"
    /\ call.sample_size # 1
    /\ \E r \in DOMAIN insights :
          /\ SameTriple(r, call.chat_id, call.insight_type, call.insight_key)
          /\ r.sample_size = 2
    /\ BagCardinality(insights) >= 2

HistOf(t) ==
    SelectSeq(hist, LAMBDA h : <<h.chat_id, h.insight_type, h.insight_key>> = t)

RECURSIVE SumScores(_)
SumScores(h) == IF h = <<>> THEN FInt(0) ELSE FAdd(h[1].score, SumScores(Tail(h)))

AllDefault(h) == \A i \in 1..Len(h) : h[i].sample_size = DefaultSampleSize

\* C2: from no row, after n >= 1 update_insight calls on a triple, all with the
\* default sample size, the row has sample_size = n and score = the mean of
\* the n scores (whatever their order); 90, 60, 30 give size 3 and score 60.
C2_RunningMean ==
    \A t \in InsightTargets :
        LET h == HistOf(t)
        IN  (Len(h) >= 1 /\ AllDefault(h)) =>
              /\ BagCardinality(RowsOf(insights, t)) = 1
              /\ \A r \in DOMAIN RowsOf(insights, t) :
                    /\ r.sample_size = Len(h)
                    /\ FMul(r.score, FInt(Len(h))) = SumScores(h)
                    /\ ({h[i].score : i \in 1..Len(h)} = {FInt(90), FInt(60), FInt(30)}
                          /\ Len(h) = 3) => r.score = FInt(60)

\* C2 witness: the three calls 90, 60, 30 were made on one triple.
C2_Witness ==
    \E t \in InsightTargets :
        /\ Len(HistOf(t)) = 3
        /\ AllDefault(HistOf(t))
        /\ [i \in 1..3 |-> HistOf(t)[i].score] = <<FInt(90), FInt(60), FInt(30)>>
        /\ \E r \in DOMAIN RowsOf(insights, t) : r.sample_size = 3 /\ r.score = FInt(60)

\* -------------------------------------------------- Database: metrics table

MetricsRow(post_id, likes, comments, shares, impressions, ts) ==
    [post_id |-> post_id, likes |-> likes, comments |-> comments, shares |-> shares,
     impressions |-> impressions, fetched_at |-> ts]

ReplaceMetrics_no_delete(tbl, post_id, likes, comments, shares, impressions, ts) ==
    Insert(tbl, MetricsRow(post_id, likes, comments, shares, impressions, ts))

\* DELETE FROM metrics WHERE post_id = ?; INSERT INTO metrics (...) VALUES (...)
\* (the table declares no uniqueness on post_id and the foreign key is not enforced)
ReplaceMetrics(tbl, post_id, likes, comments, shares, impressions, ts) ==
    LET keep == {r \in DOMAIN tbl : r.post_id # post_id}
    IN  Insert(Where(tbl, keep),
               MetricsRow(post_id, likes, comments, shares, impressions, ts))

\* Database.update_metrics: both statements in one transaction, committed on exit
update_metrics(post_id, likes, comments, shares, impressions) ==
    /\ metrics' = ReplaceMetrics(metrics, post_id, likes, comments, shares, impressions, now)
    /\ call' = [op |-> "update_metrics", post_id |-> post_id, likes |-> likes,
                comments |-> comments, shares |-> shares, impressions |-> impressions]

\* Database.get_metrics: SELECT * FROM metrics WHERE post_id = ? (the rows it can fetch)
MetricsOf(tbl, post_id) == Where(tbl, {r \in DOMAIN tbl : r.post_id = post_id})

\* ------------------------------------------- SpecMetrics: update_metrics calls

MetricPosts == {1, 2}

\* <<likes, comments, shares, impressions>> snapshots drawn as inputs
MetricValues == { <<0, 0, 0, 0>>, <<5, 1, 0, 100>>, <<7, 2, 1, 100>> }

UpdateMetricsCall ==
    /\ Len(hist) < MaxMetricCalls
    /\ \E p \in MetricPosts, v \in MetricValues :
          /\ update_metrics(p, v[1], v[2], v[3], v[4])
          /\ hist' = Append(hist, [post_id |-> p, values |-> v])
    /\ UNCHANGED <<posts, insights, user_repos, now, conns, score_in, score_out, botVars>>

NextMetrics == UpdateMetricsCall

SpecMetrics == InitDatabase /\ [][NextMetrics]_vars

MetricCallsOf(p) == SelectSeq(hist, LAMBDA h : h.post_id = p)

\* C5: after any sequence of update_metrics calls every post has at most one
\* Metrics row; a post that was the target of a call has exactly one, holding
\* the values of the latest call for that post (replaced, not summed), so a
\* call for one post leaves the rows of the others as they were.
C5_MetricsReplaced ==
    \A p \in MetricPosts :
        LET h == MetricCallsOf(p)
            rows == MetricsOf(metrics, p)
        IN  /\ BagCardinality(rows) <= 1
            /\ h = <<>> => rows = EmptyBag
            /\ h # <<>> =>
                 /\ BagCardinality(rows) = 1
                 /\ \A r \in DOMAIN rows :
                       <<r.likes, r.comments, r.shares, r.impressions>> = h[Len(h)].values

\* C5 witness: a post measured twice with different values, and then another
\* post measured, holds the values of its second call.
C5_Witness ==
    /\ Len(MetricCallsOf(1)) = 2
    /\ MetricCallsOf(1)[1].values = <<5, 1, 0, 100>>
    /\ MetricCallsOf(1)[2].values = <<7, 2, 1, 100>>
    /\ Len(hist) = 3 /\ hist[3].post_id = 2
    /\ \E r \in DOMAIN MetricsOf(metrics, 1) : r.likes = 7

\* ----------------------------------------------- Database: user_repos table

RepoRow(chat_id, repo_url, ts) ==
    [chat_id |-> chat_id, repo_url |-> repo_url, added_at |-> ts, last_indexed_at |-> NULL]

\* SELECT COUNT(*) FROM user_repos WHERE chat_id = ?
RepoCount(tbl, chat_id) == Count(tbl, {r \in DOMAIN tbl : r.chat_id = chat_id})

Registered(tbl, chat_id, repo_url) ==
    \E r \in DOMAIN tbl : r.chat_id = chat_id /\ r.repo_url = repo_url

MsgMaximum == "Maximum 5 repos allowed. Remove one first with /removerepo"
MsgDuplicate == "Repo already added"
MsgAdded == "Added repo"
MsgRemoved == "Removed repo"
MsgNotFound == "Repo not found"

InsertRepo_no_unique(tbl, chat_id, repo_url, ts) ==
    [tbl |-> Insert(tbl, RepoRow(chat_id, repo_url, ts)), ok |-> TRUE, msg |-> MsgAdded]

\* INSERT INTO user_repos ...: UNIQUE(chat_id, repo_url) raises IntegrityError,
\* which add_repo catches
InsertRepo(tbl, chat_id, repo_url, ts) ==
    IF Registered(tbl, chat_id, repo_url)
    THEN [tbl |-> tbl, ok |-> FALSE, msg |-> MsgDuplicate]
    ELSE [tbl |-> Insert(tbl, RepoRow(chat_id, repo_url, ts)), ok |-> TRUE, msg |-> MsgAdded]

\* the early return on the count that add_repo has read
OverCapacity_gt(count) == count > MaxRepos

OverCapacity(count) == count >= MaxRepos

\* Database.add_repo run without interruption: the count, then the insert
AddRepoResult(tbl, chat_id, repo_url, ts) ==
    IF OverCapacity(RepoCount(tbl, chat_id))
    THEN [tbl |-> tbl, ok |-> FALSE, msg |-> MsgMaximum]
    ELSE InsertRepo(tbl, chat_id, repo_url, ts)

\* Database.remove_repo: DELETE ... WHERE chat_id = ? AND repo_url = ?, then rowcount
RemoveRepoResult(tbl, chat_id, repo_url) ==
    LET keep == {r \in DOMAIN tbl : ~(r.chat_id = chat_id /\ r.repo_url = repo_url)}
    IN  IF Registered(tbl, chat_id, repo_url)
        THEN [tbl |-> Where(tbl, keep), ok |-> TRUE, msg |-> MsgRemoved]
        ELSE [tbl |-> tbl, ok |-> FALSE, msg |-> MsgNotFound]

add_repo(chat_id, repo_url) ==
    LET res == AddRepoResult(user_repos, chat_id, repo_url, now)
    IN  /\ user_repos' = res.tbl
        /\ call' = [op |-> "add_repo", chat_id |-> chat_id, repo_url |-> repo_url,
                    ok |-> res.ok, msg |-> res.msg]

remove_repo(chat_id, repo_url) ==
    LET res == RemoveRepoResult(user_repos, chat_id, repo_url)
    IN  /\ user_repos' = res.tbl
        /\ call' = [op |-> "remove_repo", chat_id |-> chat_id, repo_url |-> repo_url,
                    ok |-> res.ok, msg |-> res.msg]

\* ------------------------------------- SpecRepos: add_repo / remove_repo calls

Owners == {"u1", "u2"}

Urls == 1..NumUrls

\* the calls drawn: the first owner offers every url (one more than the cap),
\* the second owner two of them
RepoInputs == ({"u1"} \X Urls) \cup ({"u2"} \X {1, 2})

AddRepoCall ==
    /\ \E i \in RepoInputs : add_repo(i[1], i[2])
    /\ UNCHANGED <<posts, metrics, insights, now, hist, conns, score_in, score_out, botVars>>

RemoveRepoCall ==
    /\ \E i \in RepoInputs : remove_repo(i[1], i[2])
    /\ UNCHANGED <<posts, metrics, insights, now, hist, conns, score_in, score_out, botVars>>

NextRepos == AddRepoCall \/ RemoveRepoCall

SpecRepos == InitDatabase /\ [][NextRepos]_vars

ReposOf(tbl, chat_id) == Where(tbl, {r \in DOMAIN tbl : r.chat_id = chat_id})

\* C6: under any sequence of add_repo and remove_repo calls every owner has at
\* most 5 registrations; an add_repo for an owner who has 5 returns ok = false
\* and changes nothing; a call for one owner leaves every other owner's
\* registrations (hence remaining capacity) as they were.
C6_RepoCapacity ==
    [][/\ \A o \in Owners : RepoCount(user_repos', o) <= 5
       /\ call'.op \in {"add_repo", "remove_repo"} =>
            \A o \in Owners \ {call'.chat_id} :
                ReposOf(user_repos', o) = ReposOf(user_repos, o)
       /\ (call'.op = "add_repo" /\ RepoCount(user_repos, call'.chat_id) = 5) =>
            /\ ~call'.ok
            /\ user_repos' = user_repos
    ]_vars

\* C6 witness: an owner with 5 registrations was refused a sixth, new url while
\* the other owner holds some registrations and has room left.
C6_Witness ==
    /\ call.op = "add_repo"
    /\ ~call.ok
    /\ RepoCount(user_repos, call.chat_id) = 5
    /\ ~Registered(user_repos, call.chat_id, call.repo_url)
    /\ \E o \in Owners \ {call.chat_id} : RepoCount(user_repos, o) \in 1..4

\* C8 as stated: add_repo for a registered (owner, url) returns ok = false with
\* the duplicate error and changes nothing, so (owner, url) stays unique; for
\* an owner with fewer than 5 registrations and an unregistered url it inserts
\* exactly that pair and returns ok = true.
C8_AsStated ==
    [][call'.op = "add_repo" =>
        LET c == call'
        IN  /\ Registered(user_repos, c.chat_id, c.repo_url) =>
                 /\ ~c.ok
                 /\ c.msg = MsgDuplicate
                 /\ user_repos' = user_repos
            /\ \A o \in Owners, u \in Urls :
                 Count(user_repos', {r \in DOMAIN user_repos' :
                                        r.chat_id = o /\ r.repo_url = u}) <= 1
            /\ (RepoCount(user_repos, c.chat_id) < 5
                  /\ ~Registered(user_repos, c.chat_id, c.repo_url)) =>
                 /\ c.ok
                 /\ \E r \in DOMAIN user_repos' :
                       /\ r.chat_id = c.chat_id /\ r.repo_url = c.repo_url
                       /\ user_repos' = Insert(user_repos, r)
    ]_vars

\* C8 amended: add_repo for a registered (owner, url) returns ok = false and
\* changes nothing, with the duplicate error when the owner has fewer than 5
\* registrations and with the capacity error when the owner has 5, so
\* (owner, url) stays unique; for an owner with fewer than 5 registrations and
\* an unregistered url it inserts exactly that pair and returns ok = true.
C8_Amended ==
    [][call'.op = "add_repo" =>
        LET c == call'
        IN  /\ Registered(user_repos, c.chat_id, c.repo_url) =>
                 /\ ~c.ok
                 /\ c.msg = (IF RepoCount(user_repos, c.chat_id) < 5
                             THEN MsgDuplicate ELSE MsgMaximum)
                 /\ user_repos' = user_repos
            /\ \A o \in Owners, u \in Urls :
                 Count(user_repos', {r \in DOMAIN user_repos' :
                                        r.chat_id = o /\ r.repo_url = u}) <= 1
            /\ (RepoCount(user_repos, c.chat_id) < 5
                  /\ ~Registered(user_repos, c.chat_id, c.repo_url)) =>
                 /\ c.ok
                 /\ \E r \in DOMAIN user_repos' :
                       /\ r.chat_id = c.chat_id /\ r.repo_url = c.repo_url
                       /\ user_repos' = Insert(user_repos, r)
    ]_vars

\* C8 witness: a registered url was offered again by an owner who has 5
\* registrations and was refused with the capacity error.
C8_Witness ==
    /\ call.op = "add_repo"
    /\ Registered(user_repos, call.chat_id, call.repo_url)
    /\ RepoCount(user_repos, call.chat_id) = 5
    /\ ~call.ok
    /\ call.msg = MsgMaximum

\* ----------------------------- SpecConc: add_repo on two connections at once

\* Each add_repo opens its own connection.  The SELECT COUNT(*) runs outside
\* any transaction (sqlite3 opens one only before INSERT/UPDATE/DELETE), so
\* another connection may commit between a call's count and its insert.
Conns == {1, 2}

Idle == [pc |-> "idle", chat_id |-> "", repo_url |-> 0]

\* the count is read; over capacity the call returns at once
AddRepoCount(c) ==
    /\ conns[c].pc = "idle"
    /\ \E u \in Urls :
          IF OverCapacity(RepoCount(user_repos, "u1"))
          THEN /\ call' = [op |-> "add_repo", conn |-> c, chat_id |-> "u1", repo_url |-> u,
                           ok |-> FALSE, msg |-> MsgMaximum]
               /\ UNCHANGED conns
          ELSE /\ conns' = [conns EXCEPT ![c] = [pc |-> "insert", chat_id |-> "u1",
                                                 repo_url |-> u]]
               /\ UNCHANGED call
    /\ UNCHANGED <<posts, metrics, insights, user_repos, now, hist, score_in, score_out, botVars>>

\* the insert and the commit on leaving the with block
AddRepoInsert(c) ==
    /\ conns[c].pc = "insert"
    /\ LET res == InsertRepo(user_repos, conns[c].chat_id, conns[c].repo_url, now)
       IN  /\ user_repos' = res.tbl
           /\ call' = [op |-> "add_repo", conn |-> c, chat_id |-> conns[c].chat_id,
                       repo_url |-> conns[c].repo_url, ok |-> res.ok, msg |-> res.msg]
    /\ conns' = [conns EXCEPT ![c] = Idle]
    /\ UNCHANGED <<posts, metrics, insights, now, hist, score_in, score_out, botVars>>

NextConc == \E c \in Conns : AddRepoCount(c) \/ AddRepoInsert(c)

InitConc ==
    /\ InitStore
    /\ conns = [c \in Conns |-> Idle]
    /\ score_in = NoScoreInput
    /\ score_out = NoScore

SpecConc == InitConc /\ [][NextConc]_vars

\* C7: two add_repo calls for one owner running at once on separate
\* connections never leave the owner with more than 5 registrations.
C7_AtomicCapacity == RepoCount(user_repos, "u1") <= 5

\* ---------------------------------------------------- Database: posts table

\* posts are keyed by their id (PRIMARY KEY); uuid4 ids are modelled as 1, 2, ...
PostRow(id, chat_id, content, repo_url, trend_matched, reasoning, ts) ==
    [id |-> id, chat_id |-> chat_id, repo_url |-> repo_url, content |-> content,
     trend_matched |-> trend_matched, linkedin_post_id |-> NULL, reasoning |-> reasoning,
     created_at |-> ts, posted_at |-> NULL]

\* Database.create_post: INSERT INTO posts (id, chat_id, repo_url, content,
\* trend_matched, reasoning); created_at defaults to CURRENT_TIMESTAMP
create_post(chat_id, content, repo_url, trend_matched, reasoning) ==
    LET post_id == Cardinality(posts) + 1
    IN  /\ posts' = posts \cup {PostRow(post_id, chat_id, content, repo_url,
                                        trend_matched, reasoning, now)}
        /\ call' = [op |-> "create_post", chat_id |-> chat_id, ret |-> post_id]

MarkPublished_all_rows(tbl, post_id, linkedin_post_id, ts) ==
    {[r EXCEPT !.linkedin_post_id = Some(linkedin_post_id), !.posted_at = Some(ts)] :
        r \in tbl}

\* UPDATE posts SET linkedin_post_id = ?, posted_at = ? WHERE id = ?
MarkPublished(tbl, post_id, linkedin_post_id, ts) ==
    {IF r.id = post_id
     THEN [r EXCEPT !.linkedin_post_id = Some(linkedin_post_id), !.posted_at = Some(ts)]
     ELSE r : r \in tbl}

\* Database.mark_post_published: the statement raises nothing when no row matches
mark_post_published(post_id, linkedin_post_id) ==
    /\ posts' = MarkPublished(posts, post_id, linkedin_post_id, now)
    /\ call' = [op |-> "mark_post_published", post_id |-> post_id,
                linkedin_post_id |-> linkedin_post_id, raised |-> FALSE]

\* Database.get_post: SELECT * FROM posts WHERE id = ?
get_post(tbl, post_id) == {r \in tbl : r.id = post_id}

\* --------------------------------------- Spec, SpecStore: one call a step

\* content is kept as what the learner reads of it: whether it holds a ```
\* fence and its whitespace-delimited word count
PostInputs ==
    { [chat_id |-> "u1", content |-> [fence |-> TRUE, words |-> 120],
       repo_url |-> Some(1), trend_matched |-> Some("AI"), reasoning |-> Some("why")],
      [chat_id |-> "u2", content |-> [fence |-> FALSE, words |-> 40],
       repo_url |-> NULL, trend_matched |-> NULL, reasoning |-> NULL] }

\* ids offered to mark_post_published: those create_post can return and one
\* that it never returns
PostIds == 1..(MaxPosts + 1)

LinkedinIds == {"urn:li:share:1", "urn:li:share:2"}

CreatePostCall ==
    /\ Cardinality(posts) < MaxPosts
    /\ \E i \in PostInputs :
          create_post(i.chat_id, i.content, i.repo_url, i.trend_matched, i.reasoning)
    /\ UNCHANGED <<metrics, insights, user_repos, now, hist, conns, score_in, score_out, botVars>>

MarkPublishedCall ==
    /\ \E p \in PostIds, l \in LinkedinIds : mark_post_published(p, l)
    /\ UNCHANGED <<metrics, insights, user_repos, now, hist, conns, score_in, score_out, botVars>>

\* the other tables receive one row each
StoreMetricsCall ==
    /\ metrics = EmptyBag
    /\ update_metrics(1, 5, 1, 0, 100)
    /\ UNCHANGED <<posts, insights, user_repos, now, hist, conns, score_in, score_out, botVars>>

StoreInsightCall ==
    /\ insights = EmptyBag
    /\ update_insight("u1", "topic", "ai", FInt(60), DefaultSampleSize)
    /\ UNCHANGED <<posts, metrics, user_repos, now, hist, conns, score_in, score_out, botVars>>

StoreRepoCall ==
    /\ user_repos = EmptyBag
    /\ add_repo("u1", 1)
    /\ UNCHANGED <<posts, metrics, insights, now, hist, conns, score_in, score_out, botVars>>

\* time passes between calls (two calls may also fall on one clock value)
Tick ==
    /\ now < MaxTime
    /\ now' = now + 1
    /\ call' = [op |-> "tick"]
    /\ UNCHANGED <<posts, metrics, insights, user_repos, hist, conns, score_in, score_out, botVars>>

\* Spec: the posts table under create_post and mark_post_published, with time
Next ==
    \/ CreatePostCall
    \/ MarkPublishedCall
    \/ Tick

Spec == InitDatabase /\ [][Next]_vars

\* SpecStore: the four tables side by side, on one clock value
NextStore ==
    \/ CreatePostCall
    \/ MarkPublishedCall
    \/ StoreMetricsCall
    \/ StoreInsightCall
    \/ StoreRepoCall

SpecStore == InitDatabase /\ [][NextStore]_vars

Unpublished(r) == r.posted_at = NULL /\ r.linkedin_post_id = NULL

\* C9: posted_at and linkedin_post_id of a post are both unset from
\* create_post until the first mark_post_published on it, and once set they
\* never change again, whatever is called later (a further
\* mark_post_published on the same post included).
C9_PublishedOnce ==
    [][/\ \A q \in posts' :
            (~(call'.op = "mark_post_published" /\ call'.post_id = q.id)
               /\ \A r \in get_post(posts, q.id) : Unpublished(r))
            => Unpublished(q)
       /\ \A r \in posts :
            ~Unpublished(r) =>
                \E q \in get_post(posts', r.id) :
                    /\ q.posted_at = r.posted_at
                    /\ q.linkedin_post_id = r.linkedin_post_id
    ]_vars

Known(tbl, post_id) == get_post(tbl, post_id) # {}

\* C10: mark_post_published with an id that matches no post raises nothing
\* and leaves every post, metrics, insight and repository row as it was; the
\* posted_at and external id of a post published earlier stay.
C10_UnknownIdNoOp ==
    [][(call'.op = "mark_post_published" /\ ~Known(posts, call'.post_id)) =>
          /\ ~call'.raised
          /\ posts' = posts
          /\ metrics' = metrics
          /\ insights' = insights
          /\ user_repos' = user_repos
    ]_vars

\* C10 witness: an unknown id was marked while a published post, a metrics
\* row, an insight and a registration were stored.
C10_Witness ==
    /\ call.op = "mark_post_published"
    /\ ~Known(posts, call.post_id)
    /\ \E r \in posts : ~Unpublished(r)
    /\ metrics # EmptyBag
    /\ insights # EmptyBag
    /\ user_repos # EmptyBag

\* ------------------------------------- Database: get_posts_with_metrics

\* default of get_posts_with_metrics' limit parameter
DefaultFeedLimit == 20

\* the value of a column that is set
Val(opt) == CHOOSE x \in opt : TRUE

\* m.likes, m.comments, m.shares, m.impressions of a joined metrics row
MetricColumns(m) ==
    [likes |-> Some(m.likes), comments |-> Some(m.comments), shares |-> Some(m.shares),
     impressions |-> Some(m.impressions)]

\* the same columns where LEFT JOIN found no metrics row
NullColumns == [likes |-> NULL, comments |-> NULL, shares |-> NULL, impressions |-> NULL]

JoinMetrics_inner(p, mtbl) ==
    LET ms == MetricsOf(mtbl, p.id)
    IN  {[row |-> p @@ MetricColumns(m), copy |-> c] :
            <<m, c>> \in {x \in (DOMAIN ms) \X (1..BagCardinality(ms)) : x[2] <= ms[x[1]]}}

\* posts p LEFT JOIN metrics m ON p.id = m.post_id, for one post: one output
\* row for each metrics row of the post (copy tells equal rows apart), one row
\* with NULL metric columns when there is none
JoinMetrics(p, mtbl) ==
    LET ms == MetricsOf(mtbl, p.id)
    IN  IF ms = EmptyBag
        THEN {[row |-> p @@ NullColumns, copy |-> 1]}
        ELSE {[row |-> p @@ MetricColumns(m), copy |-> c] :
                <<m, c>> \in {x \in (DOMAIN ms) \X (1..BagCardinality(ms)) :
                                x[2] <= ms[x[1]]}}

\* WHERE p.chat_id = ? AND p.posted_at IS NOT NULL
PublishedOf(ptbl, chat_id) == {p \in ptbl : p.chat_id = chat_id /\ p.posted_at # NULL}

\* ORDER BY p.posted_at DESC: every arrangement of the joined rows that does
\* not ascend; rows with equal posted_at come in an order SQL leaves open
OrderByPostedAtDesc(rows) ==
    {s \in [1..Cardinality(rows) -> rows] :
        /\ \A i, j \in DOMAIN s : i # j => s[i] # s[j]
        /\ \A i, j \in DOMAIN s : i < j => Val(s[i].row.posted_at) >= Val(s[j].row.posted_at)}

\* LIMIT ?
Limit(s, limit) == [i \in 1..(IF limit < Len(s) THEN limit ELSE Len(s)) |-> s[i]]

\* Database.get_posts_with_metrics: the lists the query can return
get_posts_with_metrics(ptbl, mtbl, chat_id, limit) ==
    LET joined == UNION {JoinMetrics(p, mtbl) : p \in PublishedOf(ptbl, chat_id)}
    IN  {[i \in DOMAIN Limit(s, limit) |-> s[i].row] :
            s \in OrderByPostedAtDesc(joined)}

\* ------------------------------- SpecFeed: the feed of published posts

FeedLimits == {1, 2, DefaultFeedLimit}

\* drafts are written on the first clock value (the query does not read created_at)
FeedCreateCall ==
    /\ now = 0
    /\ CreatePostCall

\* metrics are collected, once, for posts that were published
FeedMetricsCall ==
    /\ \E p \in posts :
          /\ p.posted_at # NULL
          /\ MetricsOf(metrics, p.id) = EmptyBag
          /\ update_metrics(p.id, 5, 1, 0, 100)
    /\ UNCHANGED <<posts, insights, user_repos, now, hist, conns, score_in, score_out, botVars>>

\* each draft is published once
FeedPublishCall ==
    /\ \E p \in posts :
          /\ p.posted_at = NULL
          /\ mark_post_published(p.id, "urn:li:share:1")
    /\ UNCHANGED <<metrics, insights, user_repos, now, hist, conns, score_in, score_out, botVars>>

FeedTick ==
    /\ now < FeedTime
    /\ now' = now + 1
    /\ call' = [op |-> "tick"]
    /\ UNCHANGED <<posts, metrics, insights, user_repos, hist, conns, score_in, score_out, botVars>>

GetPostsWithMetricsCall ==
    /\ \E chat_id \in Owners, limit \in FeedLimits :
          \E ret \in get_posts_with_metrics(posts, metrics, chat_id, limit) :
              call' = [op |-> "get_posts_with_metrics", chat_id |-> chat_id,
                       limit |-> limit, ret |-> ret]
    /\ UNCHANGED <<posts, metrics, insights, user_repos, now, hist, conns,
                   score_in, score_out, botVars>>

NextFeed ==
    \/ FeedCreateCall
    \/ FeedPublishCall
    \/ FeedMetricsCall
    \/ FeedTick
    \/ GetPostsWithMetricsCall

SpecFeed == InitDatabase /\ [][NextFeed]_vars

\* C11: get_posts_with_metrics(owner, limit) returns at most limit rows; each
\* row is a post of that owner whose posted_at is set, no post has two rows
\* and a published post of the owner is left out only when limit rows, none
\* older than it, are returned; the rows do not ascend in posted_at; each row
\* carries the likes, comments, shares and impressions of the post's metrics
\* row, or four NULLs when the post has none.
C11_Feed ==
    [][call'.op = "get_posts_with_metrics" =>
        LET ret == call'.ret
            pub == {p \in posts : p.chat_id = call'.chat_id /\ p.posted_at # NULL}
            shown == {ret[i].id : i \in DOMAIN ret}
        IN  /\ Len(ret) <= call'.limit
            /\ \A i \in DOMAIN ret :
                 /\ \E p \in pub : p.id = ret[i].id /\ p.posted_at = ret[i].posted_at
                 /\ \A j \in DOMAIN ret : i # j => ret[i].id # ret[j].id
                 /\ \A j \in DOMAIN ret :
                      i < j => Val(ret[i].posted_at) >= Val(ret[j].posted_at)
                 /\ LET ms == MetricsOf(metrics, ret[i].id)
                    IN  IF ms = EmptyBag
                        THEN /\ ret[i].likes = NULL
                             /\ ret[i].comments = NULL
                             /\ ret[i].shares = NULL
                             /\ ret[i].impressions = NULL
                        ELSE \A m \in DOMAIN ms :
                                /\ ret[i].likes = Some(m.likes)
                                /\ ret[i].comments = Some(m.comments)
                                /\ ret[i].shares = Some(m.shares)
                                /\ ret[i].impressions = Some(m.impressions)
            /\ \A p \in pub :
                 p.id \notin shown =>
                    /\ Len(ret) = call'.limit
                    /\ \A i \in DOMAIN ret : Val(ret[i].posted_at) >= Val(p.posted_at)
    ]_vars

\* C11 witness: the owner has two published posts, the later one without a
\* metrics row and the earlier one with, and a query with limit 1 returned
\* the later one alone.
C11_Witness ==
    /\ call.op = "get_posts_with_metrics"
    /\ call.limit = 1
    /\ Len(call.ret) = 1
    /\ call.ret[1].likes = NULL
    /\ \E p \in posts :
          /\ p.chat_id = call.chat_id
          /\ p.posted_at # NULL
          /\ p.id # call.ret[1].id
          /\ Val(p.posted_at) < Val(call.ret[1].posted_at)
          /\ MetricsOf(metrics, p.id) # EmptyBag

\* ------------------------------------------- InsightLearner: learn_from_post

\* a url is the sequence of its "/" characters and of the runs of other
\* characters between them; the empty string is <<>>
UrlA == <<"https:", "/", "/", "github.com", "/", "x", "/", "alpha">>

UrlASlash == UrlA \o <<"/">>

UrlB == <<"https:", "/", "/", "github.com", "/", "x", "/", "beta">>

\* str.rstrip("/"): drops every trailing "/"
RECURSIVE RStripSlash(_)
RStripSlash(u) ==
    IF u # <<>> /\ u[Len(u)] = "/" THEN RStripSlash(SubSeq(u, 1, Len(u) - 1)) ELSE u

\* str.split("/")[-1]: what follows the last "/"
SplitLast(u) == IF u = <<>> \/ u[Len(u)] = "/" THEN "" ELSE u[Len(u)]

RepoName_no_rstrip(repo_url) == SplitLast(repo_url)

\* repo_url.rstrip("/").split("/")[-1]
RepoName(repo_url) == SplitLast(RStripSlash(repo_url))

\* str.lower() on the trends drawn as inputs
Lower(t) == CASE t = "AI" -> "ai" [] t = "Rust" -> "rust" [] OTHER -> t

\* truth value of an optional str column: None and "" are false
TruthyText(opt) == opt # NULL /\ Val(opt) # ""

TruthyUrl(opt) == opt # NULL /\ Val(opt) # <<>>

StyleKey(content) == IF content.fence THEN "with_code" ELSE "no_code"

LengthKey_inclusive(word_count) ==
    IF word_count <= 100 THEN "short" ELSE IF word_count <= 250 THEN "medium" ELSE "long"

\* word_count = len(content.split())
LengthKey(word_count) ==
    IF word_count < 100 THEN "short" ELSE IF word_count < 250 THEN "medium" ELSE "long"

Upsert(insight_type, insight_key, score) ==
    [insight_type |-> insight_type, insight_key |-> insight_key, score |-> score]

LearnUpserts_no_length(p, m) ==
    LET score == calculate_engagement_score(m.likes, m.comments, m.shares, m.impressions)
    IN  (IF TruthyText(p.trend_matched)
         THEN <<Upsert("topic", Lower(Val(p.trend_matched)), score)>> ELSE <<>>)
        \o (IF TruthyUrl(p.repo_url)
            THEN <<Upsert("repo", RepoName(Val(p.repo_url)), score)>> ELSE <<>>)
        \o <<Upsert("style", StyleKey(p.content), score)>>
        \o (IF p.content.words < 100
            THEN <<>> ELSE <<Upsert("length", LengthKey(p.content.words), score)>>)

\* the update_insight calls of learn_from_post for post row p with metrics
\* row m, in the order the code makes them
LearnUpserts(p, m) ==
    LET score == calculate_engagement_score(m.likes, m.comments, m.shares, m.impressions)
    IN  (IF TruthyText(p.trend_matched)
         THEN <<Upsert("topic", Lower(Val(p.trend_matched)), score)>> ELSE <<>>)
        \o (IF TruthyUrl(p.repo_url)
            THEN <<Upsert("repo", RepoName(Val(p.repo_url)), score)>> ELSE <<>>)
        \o <<Upsert("style", StyleKey(p.content), score)>>
        \o <<Upsert("length", LengthKey(p.content.words), score)>>

LearnCases_no_guard(ptbl, mtbl, post_id) ==
    IF get_post(ptbl, post_id) = {}
    THEN {<<>>}
    ELSE IF MetricsOf(mtbl, post_id) = EmptyBag
         THEN {LearnUpserts(p, MetricsRow(post_id, 0, 0, 0, 0, 0)) :
                  p \in get_post(ptbl, post_id)}
         ELSE {LearnUpserts(p, m) :
                  p \in get_post(ptbl, post_id), m \in DOMAIN MetricsOf(mtbl, post_id)}

\* post = get_post(post_id); metrics = get_metrics(post_id);
\* if not post or not metrics: return -- else the upserts for the row that
\* get_metrics' fetchone() yields
LearnCases(ptbl, mtbl, post_id) ==
    IF get_post(ptbl, post_id) = {} \/ MetricsOf(mtbl, post_id) = EmptyBag
    THEN {<<>>}
    ELSE {LearnUpserts(p, m) :
             p \in get_post(ptbl, post_id), m \in DOMAIN MetricsOf(mtbl, post_id)}

RECURSIVE ApplyUpserts_once(_, _, _, _)
ApplyUpserts_once(itbl, ups, chat_id, ts) ==
    IF ups = <<>>
    THEN itbl
    ELSE ApplyUpserts_once(
             IF \E r \in DOMAIN itbl :
                    SameTriple(r, chat_id, ups[1].insight_type, ups[1].insight_key)
             THEN itbl
             ELSE UpsertInsight(itbl, chat_id, ups[1].insight_type, ups[1].insight_key,
                                ups[1].score, DefaultSampleSize, ts),
             Tail(ups), chat_id, ts)

\* self.db.update_insight(chat_id=chat_id, ..., score=score) for each call in turn
RECURSIVE ApplyUpserts(_, _, _, _)
ApplyUpserts(itbl, ups, chat_id, ts) ==
    IF ups = <<>>
    THEN itbl
    ELSE ApplyUpserts(UpsertInsight(itbl, chat_id, ups[1].insight_type, ups[1].insight_key,
                                    ups[1].score, DefaultSampleSize, ts),
                      Tail(ups), chat_id, ts)

\* InsightLearner.learn_from_post
learn_from_post(post_id, chat_id) ==
    \E ups \in LearnCases(posts, metrics, post_id) :
        /\ insights' = ApplyUpserts(insights, ups, chat_id, now)
        /\ call' = [op |-> "learn_from_post", post_id |-> post_id, chat_id |-> chat_id,
                    upserts |-> ups, raised |-> FALSE]

\* ------------------------------------- SpecLearn: learning from single posts

\* word counts on both sides of the two thresholds; a trailing slash; a trend
\* that needs lower-casing; absent and empty trend and repository
LearnInputs ==
    { [chat_id |-> "u1", content |-> [fence |-> TRUE, words |-> 99],
       repo_url |-> Some(UrlASlash), trend_matched |-> Some("AI"), reasoning |-> NULL],
      [chat_id |-> "u1", content |-> [fence |-> FALSE, words |-> 100],
       repo_url |-> NULL, trend_matched |-> NULL, reasoning |-> NULL],
      [chat_id |-> "u1", content |-> [fence |-> TRUE, words |-> 249],
       repo_url |-> Some(UrlB), trend_matched |-> Some("ai"), reasoning |-> NULL],
      [chat_id |-> "u2", content |-> [fence |-> FALSE, words |-> 250],
       repo_url |-> Some(UrlA), trend_matched |-> Some("Rust"), reasoning |-> NULL],
      [chat_id |-> "u1", content |-> [fence |-> FALSE, words |-> 0],
       repo_url |-> Some(<<>>), trend_matched |-> Some(""), reasoning |-> NULL] }

\* ids offered to update_metrics and learn_from_post: those of the posts and
\* one that create_post never returns
LearnIds == 1..(LearnPosts + 1)

LearnCreateCall ==
    /\ Cardinality(posts) < LearnPosts
    /\ \E i \in LearnInputs :
          create_post(i.chat_id, i.content, i.repo_url, i.trend_matched, i.reasoning)
    /\ UNCHANGED <<metrics, insights, user_repos, now, hist, conns, score_in, score_out, botVars>>

\* metrics are stored once per id, with a score of 80 or of 0
LearnMetricsCall ==
    /\ \E p \in LearnIds, v \in {<<5, 1, 0, 100>>, <<0, 0, 0, 0>>} :
          /\ MetricsOf(metrics, p) = EmptyBag
          /\ update_metrics(p, v[1], v[2], v[3], v[4])
    /\ UNCHANGED <<posts, insights, user_repos, now, hist, conns, score_in, score_out, botVars>>

\* the callers pass the owner of the post they name
LearnFromPostCall ==
    /\ Len(hist) < MaxLearn
    /\ \E p \in LearnIds, chat_id \in Owners :
          /\ \A r \in get_post(posts, p) : r.chat_id = chat_id
          /\ learn_from_post(p, chat_id)
          /\ hist' = Append(hist, p)
    /\ UNCHANGED <<posts, metrics, user_repos, now, conns, score_in, score_out, botVars>>

NextLearn ==
    \/ LearnCreateCall
    \/ LearnMetricsCall
    \/ LearnFromPostCall

SpecLearn == InitDatabase /\ [][NextLearn]_vars

\* C12: learn_from_post on a post id that matches no post, or whose post has
\* no metrics row, raises nothing and leaves every insight row and every
\* post, metrics and repository row as it was.
C12_LearnNothing ==
    [][(/\ call'.op = "learn_from_post"
        /\ (~Known(posts, call'.post_id) \/ MetricsOf(metrics, call'.post_id) = EmptyBag)) =>
          /\ ~call'.raised
          /\ insights' = insights
          /\ posts' = posts
          /\ metrics' = metrics
          /\ user_repos' = user_repos
    ]_vars

\* C12 witness: learn_from_post ran on an id that has a metrics row but no
\* post, while insights learned earlier were stored.
C12_Witness ==
    /\ call.op = "learn_from_post"
    /\ ~Known(posts, call.post_id)
    /\ MetricsOf(metrics, call.post_id) # EmptyBag
    /\ insights # EmptyBag

\* the last path segment of a url, trailing slashes aside
ShortName(u) ==
    LET segs == SelectSeq(u, LAMBDA x : x # "/")
    IN  IF segs = <<>> THEN "" ELSE segs[Len(segs)]

KeysOf(ups, insight_type) ==
    SelectSeq(ups, LAMBDA u : u.insight_type = insight_type)

\* C13: learn_from_post on a post that exists and has metrics makes, all with
\* the engagement score of those metrics: one style upsert (with_code when the
\* body holds a ``` fence, else no_code), one length upsert (short under 100
\* words, medium under 250, else long), a topic upsert keyed by the
\* lower-cased trend exactly when the post has a trend, a repo upsert keyed
\* by the last path segment of the repository url exactly when it has a
\* repository, and nothing else; each is an update_insight for the given
\* owner, and no post or metrics row changes.
C13_LearnUpserts ==
    [][(/\ call'.op = "learn_from_post"
        /\ Known(posts, call'.post_id)
        /\ MetricsOf(metrics, call'.post_id) # EmptyBag) =>
        \A p \in get_post(posts, call'.post_id) :
        \A m \in DOMAIN MetricsOf(metrics, call'.post_id) :
          LET ups == call'.upserts
              score == calculate_engagement_score(m.likes, m.comments, m.shares,
                                                  m.impressions)
              hasTrend == p.trend_matched \notin {NULL, Some("")}
              hasRepo == p.repo_url \notin {NULL, Some(<<>>)}
              words == p.content.words
              hits(t) == {i \in DOMAIN ups :
                             t = <<call'.chat_id, ups[i].insight_type, ups[i].insight_key>>}
          IN  /\ \A i \in DOMAIN ups : ups[i].score = score
              /\ Len(ups) = 2 + (IF hasTrend THEN 1 ELSE 0) + (IF hasRepo THEN 1 ELSE 0)
              /\ Len(KeysOf(ups, "style")) = 1
              /\ KeysOf(ups, "style")[1].insight_key
                    = (IF p.content.fence THEN "with_code" ELSE "no_code")
              /\ Len(KeysOf(ups, "length")) = 1
              /\ KeysOf(ups, "length")[1].insight_key
                    = (CASE words < 100 -> "short"
                         [] words >= 100 /\ words < 250 -> "medium"
                         [] words >= 250 -> "long")
              /\ Len(KeysOf(ups, "topic")) = (IF hasTrend THEN 1 ELSE 0)
              /\ hasTrend =>
                    KeysOf(ups, "topic")[1].insight_key = Lower(Val(p.trend_matched))
              /\ Len(KeysOf(ups, "repo")) = (IF hasRepo THEN 1 ELSE 0)
              /\ hasRepo =>
                    KeysOf(ups, "repo")[1].insight_key = ShortName(Val(p.repo_url))
              /\ \A r \in DOMAIN insights \cup DOMAIN insights' :
                    LET t == <<r.chat_id, r.insight_type, r.insight_key>>
                        old == RowsOf(insights, t)
                        new == RowsOf(insights', t)
                    IN  IF hits(t) = {}
                        THEN new = old
                        ELSE /\ Cardinality(hits(t)) = 1
                             /\ BagCardinality(new) = 1
                             /\ \A n \in DOMAIN new :
                                  IF old = EmptyBag
                                  THEN n.score = score /\ n.sample_size = 1
                                  ELSE \A o \in DOMAIN old :
                                         /\ n.sample_size = o.sample_size + 1
                                         /\ n.score = FDiv(FAdd(FMul(o.score,
                                                                    FInt(o.sample_size)),
                                                                score),
                                                           FInt(o.sample_size + 1))
              /\ \A i \in DOMAIN ups :
                    RowsOf(insights', <<call'.chat_id, ups[i].insight_type,
                                        ups[i].insight_key>>) # EmptyBag
              /\ posts' = posts
              /\ metrics' = metrics
    ]_vars

\* C13 witness: a post with a fence, 99 words, the trend "AI" and a url with a
\* trailing slash was learned a second time with a non-zero score: its four
\* insights (topic ai, repo alpha, style with_code, length short) have
\* sample_size 2.
C13_Witness ==
    /\ call.op = "learn_from_post"
    /\ Len(call.upserts) = 4
    /\ \A i \in 1..4 : call.upserts[i].score = FInt(80)
    /\ \E p \in get_post(posts, call.post_id) :
          p.repo_url = Some(UrlASlash) /\ p.trend_matched = Some("AI")
    /\ \A k \in {<<"topic", "ai">>, <<"repo", "alpha">>, <<"style", "with_code">>,
                 <<"length", "short">>} :
          \E r \in DOMAIN insights :
              SameTriple(r, call.chat_id, k[1], k[2]) /\ r.sample_size = 2

\* --------------------------------------- InsightLearner: process_all_pending

\* process_all_pending reads get_posts_with_metrics(chat_id, limit=50)
PendingLimit == 50

HasMetrics_always(row) == TRUE

\* if post.get("likes") is not None
HasMetrics(row) == row.likes # NULL

\* for post in posts_with_metrics: ... self.learn_from_post(post["id"], chat_id)
\* -- the runs the loop can make over `rows` from run = [learned, insights]:
\* learned lists the ids learn_from_post was called with
RECURSIVE LearnEach(_, _, _, _, _, _)
LearnEach(rows, ptbl, mtbl, run, chat_id, ts) ==
    IF rows = <<>>
    THEN {run}
    ELSE IF HasMetrics(rows[1])
         THEN UNION {LearnEach(Tail(rows), ptbl, mtbl,
                               [learned |-> Append(run.learned, rows[1].id),
                                insights |-> ApplyUpserts(run.insights, ups, chat_id, ts)],
                               chat_id, ts) :
                        ups \in LearnCases(ptbl, mtbl, rows[1].id)}
         ELSE LearnEach(Tail(rows), ptbl, mtbl, run, chat_id, ts)

\* InsightLearner.process_all_pending
process_all_pending(chat_id) ==
    \E rows \in get_posts_with_metrics(posts, metrics, chat_id, PendingLimit) :
        \E run \in LearnEach(rows, posts, metrics,
                             [learned |-> <<>>, insights |-> insights], chat_id, now) :
            /\ insights' = run.insights
            /\ call' = [op |-> "process_all_pending", chat_id |-> chat_id,
                        learned |-> run.learned]

\* ----------------------------------- SpecBatch: repeated batch processing

\* the posts a run creates, in this order: two posts of one owner that share
\* topic (after lower-casing) and repository (after stripping the slash) but
\* differ in style and length, a third post of that owner, and a post of
\* another owner
BatchInputs ==
    << [chat_id |-> "u1", content |-> [fence |-> FALSE, words |-> 40],
        repo_url |-> Some(UrlA), trend_matched |-> Some("AI"), reasoning |-> NULL],
       [chat_id |-> "u1", content |-> [fence |-> TRUE, words |-> 120],
        repo_url |-> Some(UrlASlash), trend_matched |-> Some("ai"), reasoning |-> NULL],
       [chat_id |-> "u1", content |-> [fence |-> FALSE, words |-> 300],
        repo_url |-> Some(UrlB), trend_matched |-> NULL, reasoning |-> NULL],
       [chat_id |-> "u2", content |-> [fence |-> FALSE, words |-> 40],
        repo_url |-> Some(UrlA), trend_matched |-> NULL, reasoning |-> NULL] >>

\* posts and metrics are written before the first process_all_pending call
\* (hist lists the owners of the calls made) and stay as they are after it
BatchCreateCall ==
    /\ hist = <<>>
    /\ Cardinality(posts) < Len(BatchInputs)
    /\ LET i == BatchInputs[Cardinality(posts) + 1]
       IN  create_post(i.chat_id, i.content, i.repo_url, i.trend_matched, i.reasoning)
    /\ UNCHANGED <<metrics, insights, user_repos, now, hist, conns, score_in, score_out, botVars>>

BatchPublishCall ==
    /\ hist = <<>>
    /\ \E p \in posts :
          /\ p.posted_at = NULL
          /\ mark_post_published(p.id, "urn:li:share:1")
    /\ UNCHANGED <<metrics, insights, user_repos, now, hist, conns, score_in, score_out, botVars>>

\* metrics are stored for drafts as well as for published posts
BatchMetricsCall ==
    /\ hist = <<>>
    /\ \E p \in posts :
          /\ MetricsOf(metrics, p.id) = EmptyBag
          /\ update_metrics(p.id, 5, 1, 0, 100)
    /\ UNCHANGED <<posts, insights, user_repos, now, hist, conns, score_in, score_out, botVars>>

ProcessAllPendingCall ==
    /\ Len(hist) < MaxBatchCalls
    /\ \E chat_id \in Owners :
          /\ process_all_pending(chat_id)
          /\ hist' = Append(hist, chat_id)
    /\ UNCHANGED <<posts, metrics, user_repos, now, conns, score_in, score_out, botVars>>

NextBatch ==
    \/ BatchCreateCall
    \/ BatchPublishCall
    \/ BatchMetricsCall
    \/ ProcessAllPendingCall

SpecBatch == InitDatabase /\ [][NextBatch]_vars

\* the owner's published posts that have a metrics row
Measured(chat_id) ==
    {p \in posts : /\ p.chat_id = chat_id
                   /\ p.posted_at # NULL
                   /\ MetricsOf(metrics, p.id) # EmptyBag}

SizeOf(tbl, t) ==
    LET rs == DOMAIN RowsOf(tbl, t)
    IN  IF rs = {} THEN 0 ELSE (CHOOSE r \in rs : TRUE).sample_size

\* the (type, key) pairs post p contributes to
KeysOfPost(p) ==
    LET ups == LearnUpserts(p, MetricsRow(p.id, 0, 0, 0, 0, 0))
    IN  {<<ups[i].insight_type, ups[i].insight_key>> : i \in DOMAIN ups}

\* the number of measured posts of the owner that map to (type, key) k
Mapping(chat_id, k) == Cardinality({p \in Measured(chat_id) : k \in KeysOfPost(p)})

CallsFor(chat_id) == Len(SelectSeq(hist, LAMBDA o : o = chat_id))

get_last_post_any_owner(ptbl, chat_id) ==
    IF ptbl = {}
    THEN {NULL}
    ELSE {Some(p) : p \in {q \in ptbl : \A o \in ptbl : o.created_at <= q.created_at}}

\* Database.get_recent_posts(chat_id, limit=1) as get_last_post uses it:
\* SELECT * FROM posts WHERE chat_id = ? ORDER BY created_at DESC LIMIT 1.
\* created_at is CURRENT_TIMESTAMP; among posts that share the greatest
\* created_at SQL leaves the first row open
get_last_post(ptbl, chat_id) ==
    LET mine == {p \in ptbl : p.chat_id = chat_id}
    IN  IF mine = {}
        THEN {NULL}
        ELSE {Some(p) : p \in {q \in mine : \A o \in mine : o.created_at <= q.created_at}}

\* a bag of rows as a set of (row, copy) pairs
Copies(tbl) ==
    {x \in (DOMAIN tbl) \X (1..BagCardinality(tbl)) : x[2] <= tbl[x[1]]}

\* Database.get_insights(chat_id, insight_type): SELECT * FROM insights
\* WHERE chat_id = ? AND insight_type = ? ORDER BY score DESC -- the lists
\* the query can return (rows of equal score in either order)
get_insights(itbl, chat_id, insight_type) ==
    LET rows == Copies(Where(itbl, {r \in DOMAIN itbl :
                                      r.chat_id = chat_id /\ r.insight_type = insight_type}))
    IN  {[i \in DOMAIN s |-> s[i][1]] :
            s \in {o \in [1..Cardinality(rows) -> rows] :
                     /\ \A i, j \in DOMAIN o : i # j => o[i] # o[j]
                     /\ \A i, j \in DOMAIN o : i < j => FLe(o[j][1].score, o[i][1].score)}}

\* ------------------------------ InsightLearner: get_best_repo_for_today

\* repo_scores.get(repo_name, 50)
DefaultRepoScore == 50

\* {i["insight_key"]: i["score"] for i in repo_insights}: a later row of the
\* list replaces an earlier one with the same key
RepoScores(repo_insights) ==
    [k \in {repo_insights[i].insight_key : i \in DOMAIN repo_insights} |->
        LET last == CHOOSE i \in DOMAIN repo_insights :
                        /\ repo_insights[i].insight_key = k
                        /\ \A j \in DOMAIN repo_insights :
                              repo_insights[j].insight_key = k => j <= i
        IN  repo_insights[last].score]

EffectiveScore_no_penalty(score, repo_url, last_repo_url) == score

\* if repo_url == last_repo_url: score *= 0.5
EffectiveScore(score, repo_url, last_repo_url) ==
    IF Some(repo_url) = last_repo_url THEN FMul(score, Frac(1, 2)) ELSE score

\* scored_repos: (repo_url, score) for each candidate, in input order
ScoredRepos(available_repos, repo_scores, last_repo_url) ==
    [i \in DOMAIN available_repos |->
        LET repo_url == available_repos[i]
            repo_name == RepoName(repo_url)
            score == IF repo_name \in DOMAIN repo_scores
                     THEN repo_scores[repo_name]
                     ELSE FInt(DefaultRepoScore)
        IN  [repo_url |-> repo_url,
             score |-> EffectiveScore(score, repo_url, last_repo_url)]]

\* list.sort(key=score, reverse=True): stable, entries of equal score keep
\* their order -- built by inserting each entry behind those not below it
RECURSIVE SortByScoreDesc(_)
SortByScoreDesc(s) ==
    IF s = <<>>
    THEN <<>>
    ELSE LET init == SortByScoreDesc(SubSeq(s, 1, Len(s) - 1))
             x == s[Len(s)]
             ahead == {i \in DOMAIN init : FLe(x.score, init[i].score)}
             n == Cardinality({i \in DOMAIN init : \A j \in 1..i : j \in ahead})
         IN  SubSeq(init, 1, n) \o <<x>> \o SubSeq(init, n + 1, Len(init))

EarlyReturn_empty_only(available_repos) == Len(available_repos) = 0

\* if not available_repos: return None / if len(available_repos) == 1: return [0]
EarlyReturn(available_repos) == Len(available_repos) <= 1

\* InsightLearner.get_best_repo_for_today; reads lists the tables queried
get_best_repo_for_today(chat_id, available_repos) ==
    IF EarlyReturn(available_repos)
    THEN call' = [op |-> "get_best_repo_for_today", chat_id |-> chat_id,
                  available_repos |-> available_repos,
                  ret |-> IF available_repos = <<>> THEN NULL ELSE Some(available_repos[1]),
                  reads |-> {}]
    ELSE \E last_post \in get_last_post(posts, chat_id) :
         \E repo_insights \in get_insights(insights, chat_id, "repo") :
            LET last_repo_url == IF last_post = NULL THEN NULL ELSE Val(last_post).repo_url
                scored_repos == SortByScoreDesc(
                                    ScoredRepos(available_repos, RepoScores(repo_insights),
                                                last_repo_url))
            IN  call' = [op |-> "get_best_repo_for_today", chat_id |-> chat_id,
                         available_repos |-> available_repos,
                         ret |-> Some(scored_repos[1].repo_url),
                         reads |-> {"posts", "insights"}]

\* ------------------------------------------- SpecPick: choosing a repository

PickInputs ==
    { [chat_id |-> "u1", content |-> [fence |-> FALSE, words |-> 40],
       repo_url |-> Some(UrlA), trend_matched |-> NULL, reasoning |-> NULL],
      [chat_id |-> "u1", content |-> [fence |-> FALSE, words |-> 40],
       repo_url |-> Some(UrlB), trend_matched |-> NULL, reasoning |-> NULL],
      [chat_id |-> "u2", content |-> [fence |-> FALSE, words |-> 40],
       repo_url |-> Some(UrlA), trend_matched |-> NULL, reasoning |-> NULL] }

\* candidate lists: none, one, two in both orders, and two urls of one
\* short name
CandidateLists ==
    { <<>>, <<UrlA>>, <<UrlA, UrlB>>, <<UrlB, UrlA>>, <<UrlASlash, UrlA>> }

PickCreateCall ==
    /\ Cardinality(posts) < MaxPosts
    /\ \E i \in PickInputs :
          create_post(i.chat_id, i.content, i.repo_url, i.trend_matched, i.reasoning)
    /\ UNCHANGED <<metrics, insights, user_repos, now, hist, conns, score_in, score_out, botVars>>

\* repo insights are stored, once per key, on the first clock value
PickInsightCall ==
    /\ now = 0
    /\ \E k \in {"alpha", "beta"}, s \in {FInt(80), FInt(30)} :
          /\ RowsOf(insights, <<"u1", "repo", k>>) = EmptyBag
          /\ update_insight("u1", "repo", k, s, DefaultSampleSize)
    /\ UNCHANGED <<posts, metrics, user_repos, now, hist, conns, score_in, score_out, botVars>>

GetBestRepoCall ==
    /\ \E chat_id \in Owners, available_repos \in CandidateLists :
          get_best_repo_for_today(chat_id, available_repos)
    /\ UNCHANGED <<posts, metrics, insights, user_repos, now, hist, conns,
                   score_in, score_out, botVars>>

NextPick ==
    \/ PickCreateCall
    \/ PickInsightCall
    \/ FeedTick
    \/ GetBestRepoCall

SpecPick == InitDatabase /\ [][NextPick]_vars

\* the owner's post created last (ids are handed out in creation order)
LastCreated(chat_id) ==
    {p \in posts : p.chat_id = chat_id /\ \A q \in posts : q.chat_id = chat_id => q.id <= p.id}

\* the claimed score of candidate repo_url for the owner: the repo insight
\* of its short name, 50 without one, halved when the owner's last created
\* post is about repo_url
ClaimedScore(chat_id, repo_url) ==
    LET rs == DOMAIN RowsOf(insights, <<chat_id, "repo", ShortName(repo_url)>>)
        base == IF rs = {} THEN FInt(50) ELSE (CHOOSE r \in rs : TRUE).score
    IN  IF \E p \in LastCreated(chat_id) : p.repo_url = Some(repo_url)
        THEN FDiv(base, FInt(2))
        ELSE base

\* C16: with two or more candidates get_best_repo_for_today returns the
\* candidate of the highest effective score -- the owner's repo insight score
\* of the candidate's short name (50 without one), halved when the candidate
\* is the repository of the owner's most recently created post -- and of
\* several such candidates the one earliest in the list.
C16_BestRepo ==
    [][(call'.op = "get_best_repo_for_today" /\ Len(call'.available_repos) >= 2) =>
        LET c == call'.available_repos
            o == call'.chat_id
        IN  \E i \in DOMAIN c :
               /\ call'.ret = Some(c[i])
               /\ \A j \in DOMAIN c : FLe(ClaimedScore(o, c[j]), ClaimedScore(o, c[i]))
               /\ \A j \in 1..(i - 1) :
                     ~FLe(ClaimedScore(o, c[i]), ClaimedScore(o, c[j]))
    ]_vars

\* the owner's insight score of a candidate: that of its short name, 50
\* without one
InsightScoreOf(chat_id, repo_url) ==
    LET rs == DOMAIN RowsOf(insights, <<chat_id, "repo", ShortName(repo_url)>>)
    IN  IF rs = {} THEN FInt(50) ELSE (CHOOSE r \in rs : TRUE).score

\* repo_url is the repository of the owner's post created last
IsLastRepo(chat_id, repo_url) == \E p \in LastCreated(chat_id) : p.repo_url = Some(repo_url)

\* C28: with two or more candidates get_best_repo_for_today returns a member
\* of the candidate list; it returns the repository of the owner's most
\* recently created post only if no other candidate has an effective score
\* strictly greater than half of that repository's insight score; so, when no
\* candidate has a recorded insight, the repository of the previous post is
\* not selected again.
C28_AntiRepetition ==
    [][(call'.op = "get_best_repo_for_today" /\ Len(call'.available_repos) >= 2) =>
        LET c == call'.available_repos
            o == call'.chat_id
        IN  \E i \in DOMAIN c :
               /\ call'.ret = Some(c[i])
               /\ IsLastRepo(o, c[i]) =>
                     \A j \in DOMAIN c :
                         c[j] # c[i] =>
                            FLe(FMul(ClaimedScore(o, c[j]), FInt(2)), InsightScoreOf(o, c[i]))
               /\ (/\ \A j \in DOMAIN c :
                         RowsOf(insights, <<o, "repo", ShortName(c[j])>>) = EmptyBag
                   /\ \E j \in DOMAIN c : ~IsLastRepo(o, c[j]))
                  => ~IsLastRepo(o, c[i])
    ]_vars

\* C17: for an empty candidate list get_best_repo_for_today returns no
\* selection and for a list of one it returns that candidate, in both cases
\* without querying posts or insights and whatever they hold (also when the
\* sole candidate is the repository of the last post).
C17_EarlyReturn ==
    [][(call'.op = "get_best_repo_for_today" /\ Len(call'.available_repos) <= 1) =>
          /\ call'.reads = {}
          /\ call'.available_repos = <<>> => call'.ret = NULL
          /\ Len(call'.available_repos) = 1 => call'.ret = Some(call'.available_repos[1])
          /\ posts' = posts
          /\ insights' = insights
    ]_vars

\* C17 witness: the sole candidate was returned although the owner's last
\* post is about it and a higher-scoring repository has an insight.
C17_Witness ==
    /\ call.op = "get_best_repo_for_today"
    /\ call.available_repos = <<UrlA>>
    /\ call.ret = Some(UrlA)
    /\ \E p \in LastCreated(call.chat_id) : p.repo_url = Some(UrlA)
    /\ \E r \in DOMAIN insights : SameTriple(r, call.chat_id, "repo", "beta")

\* --------------------------- InsightLearner: get_content_recommendations

\* topic_insights[:5]
TopTopics == 5
\* repo_insights[:3]
TopRepos == 3
\* if i["sample_size"] >= 2
MinListSamples == 2
\* style_insights[0]["sample_size"] >= 3
MinBestSamples == 3

\* [{key, score} for i in insight_list[:n] if i["sample_size"] >= 2]: the
\* slice is taken first, the filter runs over the slice
Recommended(insight_list, n) ==
    LET head == SubSeq(insight_list, 1, IF n < Len(insight_list) THEN n ELSE Len(insight_list))
        kept == SelectSeq(head, LAMBDA i : i.sample_size >= MinListSamples)
    IN  [j \in DOMAIN kept |-> [key |-> kept[j].insight_key, score |-> kept[j].score]]

BestKey_first_qualified(insight_list) ==
    LET kept == SelectSeq(insight_list, LAMBDA i : i.sample_size >= MinBestSamples)
    IN  IF kept # <<>> THEN Some(kept[1].insight_key) ELSE NULL

\* if style_insights and style_insights[0]["sample_size"] >= 3:
\*     recommendations["style"] = style_insights[0]["insight_key"]
BestKey(insight_list) ==
    IF insight_list # <<>> /\ insight_list[1].sample_size >= MinBestSamples
    THEN Some(insight_list[1].insight_key)
    ELSE NULL

\* str.title() on the length keys
Title(k) == CASE k = "short" -> "Short" [] k = "medium" -> "Medium"
              [] k = "long" -> "Long" [] OTHER -> k

\* summary_parts, each part as <<its fixed wording, the value put into it>>;
\* ". ".join(summary_parts) or "Not enough data yet"
Summary(topics, style, length) ==
    LET summary_parts ==
            (IF style # NULL /\ Val(style) # ""
             THEN <<<<"Posts {} perform better",
                      IF Val(style) = "with_code" THEN "with code snippets"
                                                  ELSE "without code">>>>
             ELSE <<>>)
            \o (IF length # NULL /\ Val(length) # ""
                THEN <<<<"{} posts get more engagement", Title(Val(length))>>>>
                ELSE <<>>)
            \o (IF topics # <<>>
                THEN <<<<"'{}' is your best-performing topic", topics[1].key>>>>
                ELSE <<>>)
    IN  IF summary_parts # <<>> THEN summary_parts ELSE <<<<"Not enough data yet", "">>>>

\* InsightLearner.get_content_recommendations: four get_insights queries,
\* nothing written
get_content_recommendations(chat_id) ==
    \E topic_insights \in get_insights(insights, chat_id, "topic") :
    \E style_insights \in get_insights(insights, chat_id, "style") :
    \E length_insights \in get_insights(insights, chat_id, "length") :
    \E repo_insights \in get_insights(insights, chat_id, "repo") :
        LET topics == Recommended(topic_insights, TopTopics)
            style == BestKey(style_insights)
            length == BestKey(length_insights)
            repos == Recommended(repo_insights, TopRepos)
        IN  call' = [op |-> "get_content_recommendations", chat_id |-> chat_id,
                     ret |-> [topics |-> topics, style |-> style, length |-> length,
                              repos |-> repos,
                              summary |-> Summary(topics, style, length)]]

GetRecommendationsCall ==
    /\ \E chat_id \in Owners : get_content_recommendations(chat_id)
    /\ UNCHANGED <<posts, metrics, insights, user_repos, now, hist, conns,
                   score_in, score_out, botVars>>

\* ------------------------------------- SpecTop: recommended topics and repos

\* the insights of a run and the score each is always given: four repos and
\* two topics of one owner, a repo of another
TopInputs ==
    { <<"u1", "repo", "alpha", FInt(90)>>, <<"u1", "repo", "beta", FInt(80)>>,
      <<"u1", "repo", "gamma", FInt(70)>>, <<"u1", "repo", "delta", FInt(60)>>,
      <<"u1", "topic", "ai", FInt(60)>>, <<"u1", "topic", "rust", FInt(40)>>,
      <<"u2", "repo", "alpha", FInt(30)>> }

TopInsightCall ==
    /\ \E i \in TopInputs :
          /\ SizeOf(insights, <<i[1], i[2], i[3]>>) < MaxSamples
          /\ update_insight(i[1], i[2], i[3], i[4], DefaultSampleSize)
    /\ UNCHANGED <<posts, metrics, user_repos, now, hist, conns, score_in, score_out, botVars>>

NextTop ==
    \/ TopInsightCall
    \/ GetRecommendationsCall

SpecTop == InitDatabase /\ [][NextTop]_vars

\* the owner's insights of one type with at least two samples
Qualified(chat_id, insight_type) ==
    {r \in DOMAIN insights : /\ r.chat_id = chat_id
                             /\ r.insight_type = insight_type
                             /\ r.sample_size >= 2}

\* list holds the n highest-scoring rows of `rows` (all of them when there
\* are fewer), by descending score
IsTopOf(list, rows, n) ==
    /\ Len(list) = (IF Cardinality(rows) < n THEN Cardinality(rows) ELSE n)
    /\ \A i \in DOMAIN list :
          \E r \in rows : r.insight_key = list[i].key /\ r.score = list[i].score
    /\ \A i, j \in DOMAIN list :
          i < j => list[i].key # list[j].key /\ FLe(list[j].score, list[i].score)
    /\ \A r \in rows :
          (\A i \in DOMAIN list : list[i].key # r.insight_key) =>
              \A i \in DOMAIN list : FLe(r.score, list[i].score)

\* C18: get_content_recommendations returns as topics the (up to) 5
\* highest-scoring topic insights of the owner among those with at least 2
\* samples, and as repos the (up to) 3 highest-scoring such repo insights,
\* each by descending score -- so with fewer than 5 topics (3 repos) returned,
\* every topic (repo) insight with at least 2 samples is in the list.
C18_TopQualified ==
    [][call'.op = "get_content_recommendations" =>
          /\ IsTopOf(call'.ret.topics, Qualified(call'.chat_id, "topic"), 5)
          /\ IsTopOf(call'.ret.repos, Qualified(call'.chat_id, "repo"), 3)
    ]_vars

\* --------------------------------- SpecRecs: recommended style and length

\* the style and length insights updated in a run, with either score
RecTargets ==
    { <<"u1", "style", "with_code">>, <<"u1", "style", "no_code">>,
      <<"u1", "length", "short">> }

RecInsightCall ==
    /\ \E t \in RecTargets, s \in {FInt(90), FInt(50)} :
          /\ SizeOf(insights, t) < MaxSamples
          /\ update_insight(t[1], t[2], t[3], s, DefaultSampleSize)
    /\ UNCHANGED <<posts, metrics, user_repos, now, hist, conns, score_in, score_out, botVars>>

\* another owner's style insight, with three samples at once
RecOtherOwnerCall ==
    /\ SizeOf(insights, <<"u2", "style", "no_code">>) = 0
    /\ update_insight("u2", "style", "no_code", FInt(90), 3)
    /\ UNCHANGED <<posts, metrics, user_repos, now, hist, conns, score_in, score_out, botVars>>

NextRecs ==
    \/ RecInsightCall
    \/ RecOtherOwnerCall
    \/ GetRecommendationsCall

SpecRecs == InitDatabase /\ [][NextRecs]_vars

\* the owner's insights of one type that no other of that type outscores
Highest(chat_id, insight_type) ==
    LET rows == {r \in DOMAIN insights : r.chat_id = chat_id /\ r.insight_type = insight_type}
    IN  {r \in rows : \A o \in rows : FLe(o.score, r.score)}

\* best is the key of a highest-scoring insight that has at least 3 samples,
\* or absent when there is no insight or a highest-scoring one has fewer
BestIs(best, chat_id, insight_type) ==
    /\ best # NULL =>
          \E r \in Highest(chat_id, insight_type) :
              r.insight_key = Val(best) /\ r.sample_size >= 3
    /\ best = NULL =>
          \/ Highest(chat_id, insight_type) = {}
          \/ \E r \in Highest(chat_id, insight_type) : r.sample_size < 3

\* C19: get_content_recommendations sets style (length) to the key of the
\* owner's highest-scoring style (length) insight exactly when that insight
\* has at least 3 samples, and leaves it absent otherwise, also when a
\* lower-scoring insight of the dimension has 3 samples; the call changes no
\* stored row.
C19_BestStyleLength ==
    [][call'.op = "get_content_recommendations" =>
          /\ BestIs(call'.ret.style, call'.chat_id, "style")
          /\ BestIs(call'.ret.length, call'.chat_id, "length")
          /\ insights' = insights
          /\ posts' = posts
          /\ metrics' = metrics
          /\ user_repos' = user_repos
    ]_vars

\* C19 witness: style is absent although the owner's lower-scoring style
\* insight has 3 samples (the single highest-scoring one has fewer), and a
\* length is recommended.
C19_Witness ==
    /\ call.op = "get_content_recommendations"
    /\ call.ret.style = NULL
    /\ call.ret.length # NULL
    /\ Cardinality(Highest(call.chat_id, "style")) = 1
    /\ \E r \in DOMAIN insights :
          /\ r.chat_id = call.chat_id
          /\ r.insight_type = "style"
          /\ r \notin Highest(call.chat_id, "style")
          /\ r.sample_size >= 3

\* ------------------------------------------ Database: _get_connection

\* the persisted database
Db == [posts |-> posts, metrics |-> metrics, insights |-> insights,
       user_repos |-> user_repos]

WithConnection_keeps_partial(before, working, raised) == working

\* with self._get_connection() as conn: the statements of the block run in
\* one transaction (working is the database as they left it); an exception
\* leaving the block is answered by conn.rollback() and raised again,
\* otherwise conn.commit() runs
WithConnection(before, working, raised) == IF raised THEN before ELSE working

\* a statement, or the commit, fails with an error the block does not catch
Raise(before, working) ==
    [db |-> WithConnection(before, working, TRUE), failed |-> TRUE, raised |-> TRUE,
     error |-> "OperationalError", ret |-> NULL]

\* the block has ended without an exception: conn.commit(), which can fail too
Commit(before, working, commit_fails, caught, ret) ==
    IF commit_fails
    THEN Raise(before, working)
    ELSE [db |-> WithConnection(before, working, FALSE), failed |-> caught # "none",
          raised |-> FALSE, error |-> caught, ret |-> ret]

\* an operation of one statement: fault 1 fails the statement (it changes
\* nothing), fault 2 the commit, fault 0 nothing
SingleStatement(before, after, fault, ret) ==
    IF fault = 1 THEN Raise(before, before) ELSE Commit(before, after, fault = 2, "none", ret)

\* DELETE FROM metrics WHERE post_id = ?
DeleteMetrics(tbl, post_id) == Where(tbl, {r \in DOMAIN tbl : r.post_id # post_id})

\* Database.update_metrics: fault 1 fails the DELETE, 2 the INSERT, 3 the commit
UpdateMetricsTx(db, post_id, likes, comments, shares, impressions, ts, fault) ==
    LET afterDelete == [db EXCEPT !.metrics = DeleteMetrics(db.metrics, post_id)]
        afterInsert == [afterDelete EXCEPT !.metrics =
                            Insert(afterDelete.metrics,
                                   MetricsRow(post_id, likes, comments, shares,
                                              impressions, ts))]
    IN  IF fault = 1
        THEN Raise(db, db)
        ELSE IF fault = 2
             THEN Raise(db, afterDelete)
             ELSE Commit(db, afterInsert, fault = 3, "none", NULL)

\* Database.add_repo: fault 1 fails the SELECT COUNT(*), 2 the INSERT (when
\* it runs) with an error other than IntegrityError, 3 the commit; the
\* IntegrityError of a duplicate is caught inside the block
AddRepoTx(db, chat_id, repo_url, ts, fault) ==
    IF fault = 1
    THEN Raise(db, db)
    ELSE IF OverCapacity(RepoCount(db.user_repos, chat_id))
         THEN Commit(db, db, fault = 3, "none", [ok |-> FALSE, msg |-> MsgMaximum])
         ELSE IF fault = 2
              THEN Raise(db, db)
              ELSE LET res == InsertRepo(db.user_repos, chat_id, repo_url, ts)
                   IN  Commit(db, [db EXCEPT !.user_repos = res.tbl], fault = 3,
                              IF res.ok THEN "none" ELSE "IntegrityError",
                              [ok |-> res.ok, msg |-> res.msg])

\* UPDATE user_repos SET last_indexed_at = ? WHERE chat_id = ? AND repo_url = ?
MarkIndexed(tbl, chat_id, repo_url, ts) ==
    LET Set(r) == IF r.chat_id = chat_id /\ r.repo_url = repo_url
                  THEN [r EXCEPT !.last_indexed_at = Some(ts)]
                  ELSE r
    IN  BagOfAll(Set, tbl)

\* ------------------------------ SpecFault: write operations that can fail

\* the database and the outcome a call leaves
Leaves(op, fault, res) ==
    /\ posts' = res.db.posts
    /\ metrics' = res.db.metrics
    /\ insights' = res.db.insights
    /\ user_repos' = res.db.user_repos
    /\ call' = [op |-> op, fault |-> fault, failed |-> res.failed, raised |-> res.raised,
                error |-> res.error, ret |-> res.ret]

TxCreatePostCall ==
    /\ posts = {}
    /\ \E fault \in 0..2 :
          Leaves("create_post", fault,
                 SingleStatement(Db, [Db EXCEPT !.posts =
                                         @ \cup {PostRow(1, "u1", [fence |-> FALSE, words |-> 40],
                                                         NULL, NULL, NULL, now)}],
                                 fault, Some(1)))
    /\ UNCHANGED <<now, hist, conns, score_in, score_out, botVars>>

TxMarkPublishedCall ==
    /\ \E p \in {1, 2}, fault \in 0..2 :
          Leaves("mark_post_published", fault,
                 SingleStatement(Db, [Db EXCEPT !.posts =
                                         MarkPublished(@, p, "urn:li:share:1", now)],
                                 fault, NULL))
    /\ UNCHANGED <<now, hist, conns, score_in, score_out, botVars>>

TxUpdateMetricsCall ==
    /\ \E v \in {<<5, 1, 0, 100>>, <<7, 2, 1, 100>>}, fault \in 0..3 :
          Leaves("update_metrics", fault,
                 UpdateMetricsTx(Db, 1, v[1], v[2], v[3], v[4], now, fault))
    /\ UNCHANGED <<now, hist, conns, score_in, score_out, botVars>>

TxUpdateInsightCall ==
    /\ SizeOf(insights, <<"u1", "topic", "ai">>) < MaxSamples
    /\ \E fault \in 0..2 :
          Leaves("update_insight", fault,
                 SingleStatement(Db, [Db EXCEPT !.insights =
                                         UpsertInsight(@, "u1", "topic", "ai", FInt(60),
                                                       DefaultSampleSize, now)],
                                 fault, NULL))
    /\ UNCHANGED <<now, hist, conns, score_in, score_out, botVars>>

TxAddRepoCall ==
    /\ \E repo_url \in {1, 2}, fault \in 0..3 :
          Leaves("add_repo", fault, AddRepoTx(Db, "u1", repo_url, now, fault))
    /\ UNCHANGED <<now, hist, conns, score_in, score_out, botVars>>

TxRemoveRepoCall ==
    /\ \E repo_url \in {1, 2}, fault \in 0..2 :
          LET res == RemoveRepoResult(user_repos, "u1", repo_url)
          IN  Leaves("remove_repo", fault,
                     SingleStatement(Db, [Db EXCEPT !.user_repos = res.tbl], fault,
                                     [ok |-> res.ok, msg |-> res.msg]))
    /\ UNCHANGED <<now, hist, conns, score_in, score_out, botVars>>

TxUpdateRepoIndexedCall ==
    /\ \E repo_url \in {1, 2}, fault \in 0..2 :
          Leaves("update_repo_indexed", fault,
                 SingleStatement(Db, [Db EXCEPT !.user_repos =
                                         MarkIndexed(@, "u1", repo_url, now)],
                                 fault, NULL))
    /\ UNCHANGED <<now, hist, conns, score_in, score_out, botVars>>

NextFault ==
    \/ TxCreatePostCall
    \/ TxMarkPublishedCall
    \/ TxUpdateMetricsCall
    \/ TxUpdateInsightCall
    \/ TxAddRepoCall
    \/ TxRemoveRepoCall
    \/ TxUpdateRepoIndexedCall

SpecFault == InitDatabase /\ [][NextFault]_vars

\* C20 as stated: whenever a statement of a write operation (or its commit)
\* fails, the error reaches the caller and every table is as before the call.
C20_AsStated ==
    [][call'.failed => (call'.raised /\ Db' = Db)]_vars

\* C20: whenever a statement of a write operation (or its commit) fails,
\* every table is as before the call -- after update_metrics whose INSERT
\* fails behind its DELETE the post's previous metrics row is in place -- and
\* the error reaches the caller, except for the uniqueness violation of
\* add_repo's INSERT, which add_repo answers itself with ok = false and the
\* duplicate message.
C20_Amended ==
    [][call'.failed =>
          /\ Db' = Db
          /\ \/ call'.raised
             \/ /\ call'.op = "add_repo"
                /\ call'.error = "IntegrityError"
                /\ call'.ret = [ok |-> FALSE, msg |-> MsgDuplicate]
    ]_vars

\* C20 witness: the INSERT of update_metrics failed behind its DELETE, the
\* error was raised, and the post's earlier metrics row (other values than
\* the call's) is stored.
C20_Witness ==
    /\ call.op = "update_metrics"
    /\ call.fault = 2
    /\ call.raised
    /\ \E m \in DOMAIN MetricsOf(metrics, 1) : m.likes = 5
    /\ posts # {}
    /\ user_repos # EmptyBag


\* --------------------- SpecUpsert: update_insight on two connections at once

\* number of update_insight calls that commit in one run of SpecUpsert
MaxUpserts == 3

\* the triples the concurrent calls are drawn from
UpsertTargets == { <<"u1", "topic", "ai">>, <<"u1", "style", "with_code">> }

Closed == [pc |-> "closed"]

WriteLocked_never(c) == FALSE

\* sqlite allows one write transaction at a time: a connection that has
\* executed its INSERT holds the write lock until it commits or rolls back
WriteLocked(c) == \E d \in Conns \ {c} : conns[d].pc = "commit"

\* with self._get_connection() as conn: a connection of the call's own; no
\* transaction is open and no lock is held before the statement runs
UpdateInsightConnect(c) ==
    /\ conns[c].pc = "closed"
    /\ Len(hist) + Cardinality({d \in Conns : conns[d].pc # "closed"}) < MaxUpserts
    /\ \E t \in UpsertTargets, s \in InsightScores :
          conns' = [conns EXCEPT ![c] =
                       [pc |-> "execute", chat_id |-> t[1], insight_type |-> t[2],
                        insight_key |-> t[3], score |-> s,
                        sample_size |-> DefaultSampleSize, began |-> Len(hist)]]
    /\ UNCHANGED <<posts, metrics, insights, user_repos, now, call, hist,
                   score_in, score_out, botVars>>

\* conn.execute(INSERT ... ON CONFLICT DO UPDATE): the statement takes the
\* write lock before it reads the conflicting row, and waits while another
\* connection holds it; its effect stays private until the commit
UpdateInsightExecute(c) ==
    /\ conns[c].pc = "execute"
    /\ ~WriteLocked(c)
    /\ conns' = [conns EXCEPT ![c] =
                    [conns[c] EXCEPT !.pc = "commit"] @@
                    [working |-> UpsertInsight(insights, conns[c].chat_id,
                                               conns[c].insight_type,
                                               conns[c].insight_key, conns[c].score,
                                               conns[c].sample_size, now)]]
    /\ UNCHANGED <<posts, metrics, insights, user_repos, now, call, hist,
                   score_in, score_out, botVars>>

\* the wait for the write lock ran out (sqlite3.connect's timeout): the
\* statement raises OperationalError, _get_connection rolls back and re-raises
UpdateInsightBusy(c) ==
    /\ conns[c].pc = "execute"
    /\ WriteLocked(c)
    /\ call' = [op |-> "update_insight", conn |-> c, chat_id |-> conns[c].chat_id,
                insight_type |-> conns[c].insight_type,
                insight_key |-> conns[c].insight_key, score |-> conns[c].score,
                sample_size |-> conns[c].sample_size, began |-> conns[c].began,
                raised |-> TRUE]
    /\ conns' = [conns EXCEPT ![c] = Closed]
    /\ UNCHANGED <<posts, metrics, insights, user_repos, now, hist, score_in, score_out, botVars>>

\* conn.commit() on leaving the with block: the call completes
UpdateInsightCommit(c) ==
    /\ conns[c].pc = "commit"
    /\ insights' = conns[c].working
    /\ call' = [op |-> "update_insight", conn |-> c, chat_id |-> conns[c].chat_id,
                insight_type |-> conns[c].insight_type,
                insight_key |-> conns[c].insight_key, score |-> conns[c].score,
                sample_size |-> conns[c].sample_size, began |-> conns[c].began,
                raised |-> FALSE]
    /\ hist' = Append(hist, [chat_id |-> conns[c].chat_id,
                             insight_type |-> conns[c].insight_type,
                             insight_key |-> conns[c].insight_key,
                             score |-> conns[c].score,
                             sample_size |-> conns[c].sample_size])
    /\ conns' = [conns EXCEPT ![c] = Closed]
    /\ UNCHANGED <<posts, metrics, user_repos, now, score_in, score_out, botVars>>

NextUpsert ==
    \E c \in Conns : \/ UpdateInsightConnect(c)
                     \/ UpdateInsightExecute(c)
                     \/ UpdateInsightBusy(c)
                     \/ UpdateInsightCommit(c)

InitUpsert ==
    /\ InitStore
    /\ conns = [c \in Conns |-> Closed]
    /\ score_in = NoScoreInput
    /\ score_out = NoScore

SpecUpsert == InitUpsert /\ [][NextUpsert]_vars

\* C21: update_insight calls that run at once on separate connections lose no
\* update and create no duplicate row: from no row, once n >= 1 calls with the
\* default sample size have completed on a triple, in whatever interleaving,
\* the triple has exactly one row, with sample_size = n and score = the mean
\* of the n scores.
C21_NoLostUpdate ==
    \A t \in UpsertTargets :
        LET h == HistOf(t)
        IN  Len(h) >= 1 =>
              /\ BagCardinality(RowsOf(insights, t)) = 1
              /\ \A r \in DOMAIN RowsOf(insights, t) :
                    /\ r.sample_size = Len(h)
                    /\ FMul(r.score, FInt(Len(h))) = SumScores(h)

\* C21 witness: the third call on a triple has completed, and another call
\* completed between its connect and its commit.
C21_Witness ==
    /\ call.op = "update_insight"
    /\ ~call.raised
    /\ call.began < Len(hist) - 1
    /\ Len(HistOf(<<call.chat_id, call.insight_type, call.insight_key>>)) = 3


\* ------------------------------- ManualMetricsInput, MetricsFetcher: the flows

MsgNoPosts == "No posts found. Generate and publish a post first."

MsgNotPublished == "Last post hasn't been published yet."

MsgUpdated == "Updated metrics"

NotPublished_never(post) == FALSE

\* if not last_post.get("posted_at")
NotPublished(post) == post.posted_at = NULL

\* ManualMetricsInput.update_last_post_metrics: last_post = get_last_post(chat_id);
\* the two early returns; update_metrics(last_post["id"], ...) and then
\* learn_from_post(last_post["id"], chat_id), which reads the new metrics row
update_last_post_metrics(chat_id, likes, comments, shares, impressions) ==
    \E last_post \in get_last_post(posts, chat_id) :
        LET args == [op |-> "update_last_post_metrics", chat_id |-> chat_id,
                     likes |-> likes, comments |-> comments, shares |-> shares,
                     impressions |-> impressions, last_post |-> last_post]
        IN  IF last_post = NULL
            THEN /\ call' = args @@ [ok |-> FALSE, msg |-> MsgNoPosts, upserts |-> <<>>]
                 /\ UNCHANGED <<metrics, insights>>
            ELSE IF NotPublished(Val(last_post))
            THEN /\ call' = args @@ [ok |-> FALSE, msg |-> MsgNotPublished,
                                     upserts |-> <<>>]
                 /\ UNCHANGED <<metrics, insights>>
            ELSE LET id == Val(last_post).id
                     mtbl == ReplaceMetrics(metrics, id, likes, comments, shares,
                                            impressions, now)
                 IN  \E ups \in LearnCases(posts, mtbl, id) :
                         /\ metrics' = mtbl
                         /\ insights' = ApplyUpserts(insights, ups, chat_id, now)
                         /\ call' = args @@ [ok |-> TRUE, msg |-> MsgUpdated,
                                             upserts |-> ups]

\* what LinkedInPoster.get_post_metrics can hand back for a post: likes,
\* comments and shares as the platform reports them, impressions always 0
FetchedValues == { <<7, 2, 1, 0>> }

\* if post.get("linkedin_post_id") and post.get("posted_at")
Fetchable(row) == row.linkedin_post_id \notin {NULL, Some("")} /\ row.posted_at # NULL

\* the loop of fetch_all_pending_metrics over `rows` from run = [updated,
\* metrics]: a post is passed over (older than 7 days, no metrics from the
\* platform, or an exception that fetch_metrics_for_post catches) or its
\* metrics row is replaced; updated lists the ids whose metrics were replaced
RECURSIVE FetchEach(_, _, _)
FetchEach(rows, run, ts) ==
    IF rows = <<>>
    THEN {run}
    ELSE IF Fetchable(rows[1])
         THEN FetchEach(Tail(rows), run, ts)
              \cup UNION {FetchEach(Tail(rows),
                                    [updated |-> Append(run.updated, rows[1].id),
                                     metrics |-> ReplaceMetrics(run.metrics, rows[1].id,
                                                                v[1], v[2], v[3], v[4], ts)],
                                    ts) : v \in FetchedValues}
         ELSE FetchEach(Tail(rows), run, ts)

\* MetricsFetcher.fetch_all_pending_metrics
fetch_all_pending_metrics(chat_id) ==
    \E rows \in get_posts_with_metrics(posts, metrics, chat_id, DefaultFeedLimit) :
        \E run \in FetchEach(rows, [updated |-> <<>>, metrics |-> metrics], now) :
            /\ metrics' = run.metrics
            /\ call' = [op |-> "fetch_all_pending_metrics", chat_id |-> chat_id,
                        updated |-> run.updated, ret |-> Len(run.updated)]

\* -------------------- SpecFlow: publishing, metrics input and learning flows

\* number of metrics-input and learning calls in one run of SpecFlow
MaxFlowCalls == 2

\* the drafts generate_post_tool stores
FlowInputs ==
    { [chat_id |-> "u1", content |-> [fence |-> TRUE, words |-> 120],
       repo_url |-> Some(UrlA), trend_matched |-> Some("AI"), reasoning |-> NULL],
      [chat_id |-> "u2", content |-> [fence |-> FALSE, words |-> 40],
       repo_url |-> Some(UrlB), trend_matched |-> NULL, reasoning |-> NULL] }

\* <<likes, comments, shares, impressions>> as /stats passes them
StatsValues == { <<5, 1, 0, 100>>, <<0, 0, 0, 0>> }

FlowGenerateCall ==
    /\ Cardinality(posts) < MaxPosts
    /\ \E i \in FlowInputs :
          create_post(i.chat_id, i.content, i.repo_url, i.trend_matched, i.reasoning)
    /\ UNCHANGED <<metrics, insights, user_repos, now, hist, conns, score_in, score_out, botVars>>

\* save_post_as_published(post_id, linkedin_post_id): a post can be marked again
FlowPublishCall ==
    /\ \E p \in posts : mark_post_published(p.id, "urn:li:share:1")
    /\ UNCHANGED <<metrics, insights, user_repos, now, hist, conns, score_in, score_out, botVars>>

UpdateLastPostMetricsCall ==
    /\ Len(hist) < MaxFlowCalls
    /\ \E chat_id \in Owners, v \in StatsValues :
          update_last_post_metrics(chat_id, v[1], v[2], v[3], v[4])
    /\ hist' = Append(hist, "update_last_post_metrics")
    /\ UNCHANGED <<posts, user_repos, now, conns, score_in, score_out, botVars>>

FetchAllPendingMetricsCall ==
    /\ Len(hist) < MaxFlowCalls
    /\ \E chat_id \in Owners : fetch_all_pending_metrics(chat_id)
    /\ hist' = Append(hist, "fetch_all_pending_metrics")
    /\ UNCHANGED <<posts, insights, user_repos, now, conns, score_in, score_out, botVars>>

FlowProcessCall ==
    /\ Len(hist) < MaxFlowCalls
    /\ \E chat_id \in Owners : process_all_pending(chat_id)
    /\ hist' = Append(hist, "process_all_pending")
    /\ UNCHANGED <<posts, metrics, user_repos, now, conns, score_in, score_out, botVars>>

NextFlow ==
    \/ FlowGenerateCall
    \/ FlowPublishCall
    \/ FeedTick
    \/ UpdateLastPostMetricsCall
    \/ FetchAllPendingMetricsCall
    \/ FlowProcessCall

SpecFlow == InitDatabase /\ [][NextFlow]_vars

\* the owner's published posts none of which was published later
LastPublished(chat_id) ==
    {p \in PublishedOf(posts, chat_id) :
        \A q \in PublishedOf(posts, chat_id) : Val(q.posted_at) <= Val(p.posted_at)}

\* C22: update_last_post_metrics, whenever the owner has a published post,
\* stores the supplied metrics on the owner's most recently published post,
\* learns from that post and returns success; it returns failure, leaving
\* metrics and insights as they were, only when the owner has no published
\* post.
C22_StatsOnLastPublished ==
    [][call'.op = "update_last_post_metrics" =>
        LET c == call'
        IN  IF PublishedOf(posts, c.chat_id) = {}
            THEN ~c.ok /\ metrics' = metrics /\ insights' = insights
            ELSE /\ c.ok
                 /\ \E p \in LastPublished(c.chat_id) :
                       /\ c.last_post = Some(p)
                       /\ MetricsOf(metrics', p.id)
                            = SetToBag({MetricsRow(p.id, c.likes, c.comments, c.shares,
                                                   c.impressions, now)})
                       /\ \E m \in DOMAIN MetricsOf(metrics', p.id) :
                             /\ c.upserts = LearnUpserts(p, m)
                             /\ insights' = ApplyUpserts(insights, c.upserts, c.chat_id, now)
    ]_vars



\* ------------------- SpecAttr: what learn_from_post adds to the insights

\* the posts of a run, in this order
AttrInputs ==
    << [chat_id |-> "u1", content |-> [fence |-> TRUE, words |-> 120],
        repo_url |-> Some(UrlA), trend_matched |-> Some("AI"), reasoning |-> NULL],
       [chat_id |-> "u1", content |-> [fence |-> FALSE, words |-> 40],
        repo_url |-> NULL, trend_matched |-> NULL, reasoning |-> NULL],
       [chat_id |-> "u2", content |-> [fence |-> FALSE, words |-> 300],
        repo_url |-> Some(UrlA), trend_matched |-> Some("ai"), reasoning |-> NULL] >>

\* ids offered to update_metrics and learn_from_post: those of the posts and
\* one that create_post never returns
AttrIds == 1..(Len(AttrInputs) + 1)

\* non-negative <<likes, comments, shares, impressions>>: a score of 80 and,
\* without and with impressions, two that reach the cap of 100
AttrValues == { <<5, 1, 0, 100>>, <<50, 10, 0, 0>>, <<5, 1, 0, 10>> }

AttrCreateCall ==
    /\ Cardinality(posts) < Len(AttrInputs)
    /\ LET i == AttrInputs[Cardinality(posts) + 1]
       IN  create_post(i.chat_id, i.content, i.repo_url, i.trend_matched, i.reasoning)
    /\ UNCHANGED <<metrics, insights, user_repos, now, hist, conns, score_in, score_out,
                   botVars>>

\* metrics are stored once per id
AttrMetricsCall ==
    /\ \E p \in AttrIds, v \in AttrValues :
          /\ MetricsOf(metrics, p) = EmptyBag
          /\ get_post(posts, p) = {} => v = <<5, 1, 0, 100>>
          /\ update_metrics(p, v[1], v[2], v[3], v[4])
    /\ UNCHANGED <<posts, insights, user_repos, now, hist, conns, score_in, score_out,
                   botVars>>

\* learn_from_post with any id and any owner; hist lists the owner of each
\* call and whether it got past `if not post or not metrics: return`
AttrLearnCall ==
    /\ Len(hist) < MaxLearn
    /\ \E p \in AttrIds, chat_id \in Owners :
          /\ learn_from_post(p, chat_id)
          /\ hist' = Append(hist, [chat_id |-> chat_id,
                                   passed |-> call'.upserts # <<>>])
    /\ UNCHANGED <<posts, metrics, user_repos, now, conns, score_in, score_out, botVars>>

NextAttr ==
    \/ AttrCreateCall
    \/ AttrMetricsCall
    \/ AttrLearnCall

SpecAttr == InitDatabase /\ [][NextAttr]_vars

RECURSIVE SumSizes(_, _)
SumSizes(tbl, rows) ==
    IF rows = {}
    THEN 0
    ELSE LET r == CHOOSE x \in rows : TRUE
         IN  r.sample_size * tbl[r] + SumSizes(tbl, rows \ {r})

\* the sum of sample_size over the owner's insights of one dimension
SamplesOf(tbl, chat_id, insight_type) ==
    SumSizes(tbl, {r \in DOMAIN tbl : r.chat_id = chat_id /\ r.insight_type = insight_type})

\* the learn_from_post executions for the owner that got past the guard
Executions(h, chat_id) ==
    Cardinality({i \in DOMAIN h : h[i].chat_id = chat_id /\ h[i].passed})

C27_ScoreRange ==
    \A r \in DOMAIN insights :
        /\ r.score.ok
        /\ FLe(FInt(0), r.score)
        /\ FLe(r.score, FInt(100))
        /\ r.sample_size >= 1

\* C27 witness: a row holds the mean of a capped score of 100 and a smaller
\* one, and another row holds 100.
C27_Witness ==
    /\ \E r \in DOMAIN insights :
          r.sample_size = 2 /\ r.score # FInt(100) /\ FLe(FInt(50), r.score)
    /\ \E r \in DOMAIN insights : r.score = FInt(100)

\* ------------------------------- SpecLife: the lifecycle of a post

\* the drafts of a run, in this order: two of one owner, one of another
LifeInputs ==
    << [chat_id |-> "u1", content |-> [fence |-> TRUE, words |-> 120],
        repo_url |-> Some(UrlA), trend_matched |-> Some("AI"), reasoning |-> NULL],
       [chat_id |-> "u1", content |-> [fence |-> FALSE, words |-> 40],
        repo_url |-> Some(UrlB), trend_matched |-> NULL, reasoning |-> NULL],
       [chat_id |-> "u2", content |-> [fence |-> FALSE, words |-> 40],
        repo_url |-> Some(UrlA), trend_matched |-> Some("AI"), reasoning |-> NULL] >>

LifeGenerateCall ==
    /\ Cardinality(posts) < Len(LifeInputs)
    /\ LET i == LifeInputs[Cardinality(posts) + 1]
       IN  create_post(i.chat_id, i.content, i.repo_url, i.trend_matched, i.reasoning)
    /\ UNCHANGED <<metrics, insights, user_repos, now, hist, conns, score_in, score_out,
                   botVars>>

\* the calls of one run fall on one clock value, so that get_last_post may
\* yield any post of the owner
NextLife ==
    \/ LifeGenerateCall
    \/ FlowPublishCall
    \/ UpdateLastPostMetricsCall
    \/ FetchAllPendingMetricsCall
    \/ FlowProcessCall

SpecLife == InitDatabase /\ [][NextLife]_vars

IsPublished(tbl, post_id) == \E p \in tbl : p.id = post_id /\ p.posted_at # NULL

\* the post ids a call has learned from
LearnedBy(c) ==
    IF c.op = "process_all_pending"
    THEN {c.learned[i] : i \in DOMAIN c.learned}
    ELSE IF c.op = "update_last_post_metrics" /\ c.ok
    THEN {Val(c.last_post).id}
    ELSE {}

\* C24: under the publishing, metrics-input and learning flows every post
\* that has a metrics row is published, every post a flow learns from is
\* published, and a published post never becomes a draft again (so that the
\* step from drafted to published is taken at most once per post).
C24_Lifecycle ==
    [][/\ \A m \in DOMAIN metrics' : IsPublished(posts', m.post_id)
       /\ \A id \in LearnedBy(call') : IsPublished(posts', id)
       /\ \A p \in posts : p.posted_at # NULL => IsPublished(posts', p.id)
    ]_vars

\* C24 witness: an owner with a draft and a published post has had metrics
\* stored by /stats and by the fetcher's flow has learned from the published
\* post, while the draft has no metrics row.
C24_Witness ==
    /\ call.op = "process_all_pending"
    /\ Len(call.learned) >= 1
    /\ "update_last_post_metrics" \in {hist[i] : i \in DOMAIN hist}
    /\ \E p \in posts :
          /\ p.chat_id = call.chat_id
          /\ p.posted_at = NULL
          /\ MetricsOf(metrics, p.id) = EmptyBag
    /\ \E p \in posts :
          /\ p.chat_id = call.chat_id
          /\ p.posted_at # NULL
          /\ MetricsOf(metrics, p.id) # EmptyBag

\* ------------------------------- SpecIso: calls made for different owners

IsoLearnCall ==
    /\ Len(hist) < MaxFlowCalls
    /\ \E p \in posts, chat_id \in Owners : learn_from_post(p.id, chat_id)
    /\ hist' = Append(hist, "learn_from_post")
    /\ UNCHANGED <<posts, metrics, user_repos, now, conns, score_in, score_out, botVars>>

IsoAddRepoCall ==
    /\ \E chat_id \in Owners : add_repo(chat_id, UrlA)
    /\ UNCHANGED <<posts, metrics, insights, now, hist, conns, score_in, score_out, botVars>>

IsoRemoveRepoCall ==
    /\ \E chat_id \in Owners : remove_repo(chat_id, UrlA)
    /\ UNCHANGED <<posts, metrics, insights, now, hist, conns, score_in, score_out, botVars>>

NextIso ==
    \/ LifeGenerateCall
    \/ FlowPublishCall
    \/ UpdateLastPostMetricsCall
    \/ FetchAllPendingMetricsCall
    \/ FlowProcessCall
    \/ IsoLearnCall
    \/ IsoAddRepoCall
    \/ IsoRemoveRepoCall

SpecIso == InitDatabase /\ [][NextIso]_vars

\* the operations that are performed for an owner: they take a chat_id
OwnerOps ==
    {"create_post", "update_last_post_metrics", "fetch_all_pending_metrics",
     "process_all_pending", "learn_from_post", "add_repo", "remove_repo"}

InsightsOf(itbl, chat_id) == Where(itbl, {r \in DOMAIN itbl : r.chat_id = chat_id})

\* the rows that belong to an owner: the owner's posts, the metrics of those
\* posts, the owner's insights and the owner's repository registrations
OwnedRows(ptbl, mtbl, itbl, rtbl, chat_id) ==
    [posts      |-> {p \in ptbl : p.chat_id = chat_id},
     metrics    |-> Where(mtbl, {m \in DOMAIN mtbl :
                                   \E p \in ptbl : p.chat_id = chat_id /\ p.id = m.post_id}),
     insights   |-> InsightsOf(itbl, chat_id),
     user_repos |-> ReposOf(rtbl, chat_id)]

\* C29: learn_from_post changes no insight of an owner other than the one it
\* is given; every post that process_all_pending or update_last_post_metrics
\* learns from belongs to the owner the flow runs for; and an operation
\* performed for one owner leaves the posts, metrics, insights and repository
\* registrations of every other owner as they were.
C29_OwnerIsolation ==
    [][/\ call'.op = "learn_from_post" =>
            \A o \in Owners \ {call'.chat_id} :
                InsightsOf(insights', o) = InsightsOf(insights, o)
       /\ \A id \in LearnedBy(call') :
            \E p \in posts : p.id = id /\ p.chat_id = call'.chat_id
       /\ call'.op \in OwnerOps =>
            \A o \in Owners \ {call'.chat_id} :
                OwnedRows(posts', metrics', insights', user_repos', o)
                  = OwnedRows(posts, metrics, insights, user_repos, o)
    ]_vars

\* C29 witness: learn_from_post, given one owner and a post of another owner,
\* has written insights while the other owner holds a post with metrics,
\* insights and a repository registration.
C29_Witness ==
    /\ call.op = "learn_from_post"
    /\ call.upserts # <<>>
    /\ \E p \in posts :
          /\ p.id = call.post_id
          /\ p.chat_id # call.chat_id
          /\ MetricsOf(metrics, p.id) # EmptyBag
          /\ InsightsOf(insights, p.chat_id) # EmptyBag
          /\ ReposOf(user_repos, p.chat_id) # EmptyBag
    /\ InsightsOf(insights, call.chat_id) # EmptyBag

\* ------------------------------------------- /time and the PostScheduler

\* int(s) of a string of digits, kept as the sequence of its digits
RECURSIVE IntOf(_)
IntOf(ds) ==
    IF ds = <<>> THEN 0 ELSE 10 * IntOf(SubSeq(ds, 1, Len(ds) - 1)) + ds[Len(ds)]

\* parse_time: ^(\d{1,2}):(\d{2})$ with 0 <= hour <= 23 and 0 <= minute <= 59
\* (what the second pattern, ^(\d):(\d{2})$, accepts the first accepts too);
\* arg holds the digits left and right of the colon
parse_time(arg) ==
    IF /\ Len(arg[1]) \in {1, 2}
       /\ Len(arg[2]) = 2
       /\ IntOf(arg[1]) <= 23
       /\ IntOf(arg[2]) <= 59
    THEN Some(<<IntOf(arg[1]), IntOf(arg[2])>>)
    ELSE NULL

\* format_time: f"{hour:02d}:{minute:02d}"
format_time(hour, minute) ==
    << <<hour \div 10, hour % 10>>, <<minute \div 10, minute % 10>> >>

\* time_command with one argument: an invalid time is answered and nothing
\* is stored; a valid one goes to config_store.update(preferred_time=...)
time_command(chat_id, arg) ==
    IF parse_time(arg) = NULL
    THEN /\ call' = [op |-> "time_command", chat_id |-> chat_id, ok |-> FALSE]
         /\ UNCHANGED configs
    ELSE LET parsed == Val(parse_time(arg))
         IN  /\ configs' = [configs EXCEPT ![chat_id].preferred_time =
                                Some(format_time(parsed[1], parsed[2]))]
             /\ call' = [op |-> "time_command", chat_id |-> chat_id, ok |-> TRUE,
                         hour |-> parsed[1], minute |-> parsed[2]]

\* PostScheduler.schedule_user: hour, minute = map(int, preferred_time.split(":"));
\* unschedule_user; add_job(CronTrigger(hour, minute), id=job_id,
\* replace_existing=True); self._jobs[chat_id] = job_id
schedule_user(sch, chat_id, config) ==
    IF config.preferred_time = NULL
    THEN sch
    ELSE LET t == Val(config.preferred_time)
         IN  [sch EXCEPT !.jobs[chat_id] = Some(<<IntOf(t[1]), IntOf(t[2])>>),
                         !.job_ids = @ \cup {chat_id}]

\* _load_all_schedules: for config in list_all(): if config.preferred_time
\* and config.github_url: schedule_user(config)
RECURSIVE LoadAllSchedules(_, _)
LoadAllSchedules(sch, chats) ==
    IF chats = {}
    THEN sch
    ELSE LET c == CHOOSE x \in chats : TRUE
         IN  LoadAllSchedules(
                 IF configs[c].preferred_time # NULL /\ configs[c].github_url # NULL
                 THEN schedule_user(sch, c, configs[c])
                 ELSE sch,
                 chats \ {c})

\* --------------------------------- SpecSched: one chat's schedule over time

\* the arguments given to /time: 9:00, 09:00, 14:30, 25:00, 9:60 and 14:3
TimeArgs ==
    { << <<9>>, <<0, 0>> >>, << <<0, 9>>, <<0, 0>> >>, << <<1, 4>>, <<3, 0>> >>,
      << <<2, 5>>, <<0, 0>> >>, << <<9>>, <<6, 0>> >>, << <<1, 4>>, <<3>> >> }

dbVars == <<posts, metrics, insights, user_repos, now, hist, conns, score_in, score_out>>

\* /connect with a valid url: config_store.update(github_url=...)
ConnectCommand ==
    /\ \E c \in Chats :
          /\ configs' = [configs EXCEPT ![c].github_url = Some(UrlA)]
          /\ call' = [op |-> "connect_command", chat_id |-> c]
    /\ UNCHANGED <<dbVars, scheduler, user_data, linkedin>>

\* /disconnect: config_store.update(github_url=None)
DisconnectCommand ==
    /\ \E c \in Chats :
          /\ configs[c].github_url # NULL
          /\ configs' = [configs EXCEPT ![c].github_url = NULL]
          /\ call' = [op |-> "disconnect_command", chat_id |-> c]
    /\ UNCHANGED <<dbVars, scheduler, user_data, linkedin>>

TimeCommand ==
    /\ \E c \in Chats, arg \in TimeArgs : time_command(c, arg)
    /\ UNCHANGED <<dbVars, scheduler, user_data, linkedin>>

\* main.post_init when the process starts: set_post_callback, then
\* PostScheduler.start
PostInit ==
    /\ ~scheduler.running
    /\ scheduler' = LoadAllSchedules([scheduler EXCEPT !.running = TRUE,
                                                       !.post_callback = TRUE], Chats)
    /\ call' = [op |-> "post_init"]
    /\ UNCHANGED <<dbVars, configs, user_data, linkedin>>

\* the process ends (post_scheduler.stop()); the next one starts with a new
\* PostScheduler and empty user_data, the config files stay
Shutdown ==
    /\ scheduler.running
    /\ scheduler' = [running |-> FALSE, post_callback |-> FALSE,
                     jobs |-> [c \in Chats |-> NULL], job_ids |-> {}]
    /\ user_data' = [c \in Chats |-> NoUserData]
    /\ call' = [op |-> "shutdown"]
    /\ UNCHANGED <<dbVars, configs, linkedin>>

\* the job's time of day comes round: PostScheduler._trigger_post calls the
\* callback unless none is set or the chat has no repository any more
TriggerPost ==
    /\ scheduler.running
    /\ \E c \in Chats :
          /\ scheduler.jobs[c] # NULL
          /\ call' = [op |-> "trigger_post", chat_id |-> c,
                      at |-> Val(scheduler.jobs[c]),
                      called |-> scheduler.post_callback /\ configs[c].github_url # NULL]
    /\ UNCHANGED <<dbVars, botVars>>

NextSched ==
    \/ ConnectCommand
    \/ DisconnectCommand
    \/ TimeCommand
    \/ PostInit
    \/ Shutdown
    \/ TriggerPost

SpecSched == InitDatabase /\ [][NextSched]_vars

\* C23: once /time HH:MM with a valid time has been handled for a chat that
\* has a repository connected, the running PostScheduler holds the chat's one
\* daily job at HH:MM (so that the callback fires at that time without a
\* restart of the process).
C23_TimeSchedules ==
    ( /\ call.op = "time_command"
      /\ call.ok
      /\ configs[call.chat_id].github_url # NULL
      /\ scheduler.running )
    => /\ scheduler.jobs[call.chat_id] = Some(<<call.hour, call.minute>>)
       /\ call.chat_id \in scheduler.job_ids


\* ------------------------------------- /generate and the approval of a draft

\* str(chat_id): the chat's owner key in the database
Str(chat_id) == IF chat_id = 101 THEN "u1" ELSE "u2"

APPROVAL_KEYWORDS == {"post", "yes", "go", "ship", "publish", "send"}

\* is_approval_message on the lower-cased text, kept as its words: the text
\* is a keyword, or a short text that holds one
is_approval_message(text) == \E i \in DOMAIN text : text[i] \in APPROVAL_KEYWORDS

ReplyNoPending == "No pending post to approve."

ReplyNotConnected == "However, LinkedIn is not connected."

ReplyPosted == "Posted to LinkedIn!"

ReplyFailed == "Failed to post to LinkedIn"

ReplyUnknown == "I didn't understand that."

ReplyNoRepo == "No repository connected."

ReplyError == "Error generating post"

ReplyDraft == "Your LinkedIn Post Draft"

ClearPending_keeps(ud) == ud

\* context.user_data.pop("pending_post", None); ...pop("pending_repo", None)
ClearPending(ud) == [ud EXCEPT !.pending_post = NULL, !.pending_repo = NULL]

\* what the approval can come to once a draft is pending and LinkedIn is
\* connected: the first reply_text raises before anything is sent to the
\* platform, or linkedin_poster.create_post returns success or failure
PublishOutcomes == {"telegram_error", "posted", "failed"}

\* handle_approval; nothing in it reads or writes the posts table
handle_approval(chat_id) ==
    LET pending_post == user_data[chat_id].pending_post
        done(reply, published) ==
            [op |-> "handle_approval", chat_id |-> chat_id, pending_post |-> pending_post,
             reply |-> reply, published |-> published]
    IN  IF pending_post = NULL
        THEN /\ call' = done(Some(ReplyNoPending), FALSE)
             /\ UNCHANGED <<user_data, linkedin>>
        ELSE IF ~configs[chat_id].linkedin_connected
        THEN /\ user_data' = [user_data EXCEPT ![chat_id] = ClearPending(@)]
             /\ call' = done(Some(ReplyNotConnected), FALSE)
             /\ UNCHANGED linkedin
        ELSE \E outcome \in PublishOutcomes :
                CASE outcome = "telegram_error" ->
                        /\ call' = done(NULL, FALSE)
                        /\ UNCHANGED <<user_data, linkedin>>
                  [] outcome = "posted" ->
                        /\ linkedin' = Append(linkedin, [chat_id |-> chat_id,
                                                         text |-> Val(pending_post)])
                        /\ user_data' = [user_data EXCEPT ![chat_id] = ClearPending(@)]
                        /\ call' = done(Some(ReplyPosted), TRUE)
                  [] outcome = "failed" ->
                        /\ user_data' = [user_data EXCEPT ![chat_id] = ClearPending(@)]
                        /\ call' = done(Some(ReplyFailed), FALSE)
                        /\ UNCHANGED linkedin

\* handlers.handle_message
handle_message(chat_id, text) ==
    IF is_approval_message(text)
    THEN handle_approval(chat_id)
    ELSE /\ call' = [op |-> "handle_message", chat_id |-> chat_id,
                     reply |-> Some(ReplyUnknown)]
         /\ UNCHANGED <<user_data, linkedin>>

\* the repos[0] of get_repos(chat_id): a registration of the owner none of
\* whose registrations is older
FirstRepos(chat_id) ==
    {r \in DOMAIN user_repos :
        /\ r.chat_id = chat_id
        /\ \A o \in DOMAIN user_repos : o.chat_id = chat_id => r.added_at <= o.added_at}

\* generate_command: without a repository it only replies; with registered
\* repositories generate_with_agent runs the agent, whose generate_post_tool
\* stores the draft as a post; otherwise the single-repository mode writes
\* the draft and stores no post.  Either mode may fail and leave user_data as
\* it was.  The draft's text is kept as the number of the /generate that
\* wrote it; hist lists these with the post stored for each
generate_command(chat_id) ==
    LET draft == Len(hist) + 1
        post_id == Cardinality(posts) + 1
        done(reply) == [op |-> "generate_command", chat_id |-> chat_id, reply |-> reply]
    IN  IF configs[chat_id].github_url = NULL /\ FirstRepos(Str(chat_id)) = {}
        THEN /\ call' = done(ReplyNoRepo)
             /\ UNCHANGED <<posts, user_data, hist>>
        ELSE \/ /\ call' = done(ReplyError)
                /\ UNCHANGED <<posts, user_data, hist>>
             \/ /\ FirstRepos(Str(chat_id)) # {}
                /\ \E r \in FirstRepos(Str(chat_id)) :
                      /\ posts' = posts \cup
                            {PostRow(post_id, Str(chat_id), [fence |-> FALSE, words |-> 120],
                                     Some(r.repo_url), NULL, Some("Selected repo"), now)}
                      /\ user_data' = [user_data EXCEPT ![chat_id] =
                                          [pending_post |-> Some(draft),
                                           pending_repo |-> Some(r.repo_url)]]
                /\ hist' = Append(hist, [chat_id |-> chat_id, post_id |-> Some(post_id)])
                /\ call' = done(ReplyDraft)
             \/ /\ FirstRepos(Str(chat_id)) = {}
                /\ user_data' = [user_data EXCEPT ![chat_id] =
                                    [pending_post |-> Some(draft),
                                     pending_repo |-> configs[chat_id].github_url]]
                /\ hist' = Append(hist, [chat_id |-> chat_id, post_id |-> NULL])
                /\ call' = done(ReplyDraft)
                /\ UNCHANGED posts

\* ------------------------------ SpecApprove: drafts and their approval

\* number of drafts written in one run of SpecApprove
MaxDrafts == 2

\* the texts a chat sends, lower-cased and split into words
Messages == { <<"post">>, <<"yes">>, <<"ship", "it">>, <<"hello">> }

\* /authcode with a code the platform accepts: the token and its expiry are stored
AuthCodeCommand ==
    /\ \E c \in Chats :
          /\ ~configs[c].linkedin_connected
          /\ configs' = [configs EXCEPT ![c].linkedin_connected = TRUE]
          /\ call' = [op |-> "authcode_command", chat_id |-> c]
    /\ UNCHANGED <<dbVars, scheduler, user_data, linkedin>>

\* /deauth, or the token's expiry time passes
DeauthCommand ==
    /\ \E c \in Chats :
          /\ configs[c].linkedin_connected
          /\ configs' = [configs EXCEPT ![c].linkedin_connected = FALSE]
          /\ call' = [op |-> "deauth_command", chat_id |-> c]
    /\ UNCHANGED <<dbVars, scheduler, user_data, linkedin>>

\* /addrepo with a valid url
AddRepoCommand ==
    /\ \E c \in Chats :
          /\ ~Registered(user_repos, Str(c), UrlB)
          /\ add_repo(Str(c), UrlB)
    /\ UNCHANGED <<posts, metrics, insights, now, hist, conns, score_in, score_out,
                   botVars>>

GenerateCommand ==
    /\ Len(hist) < MaxDrafts
    /\ \E c \in Chats : generate_command(c)
    /\ UNCHANGED <<metrics, insights, user_repos, now, conns, score_in, score_out,
                   configs, scheduler, linkedin>>

HandleMessage ==
    /\ \E c \in Chats, text \in Messages : handle_message(c, text)
    /\ UNCHANGED <<dbVars, configs, scheduler>>

NextApprove ==
    \/ ConnectCommand
    \/ AddRepoCommand
    \/ AuthCodeCommand
    \/ DeauthCommand
    \/ GenerateCommand
    \/ HandleMessage

SpecApprove == InitDatabase /\ [][NextApprove]_vars

\* the bot keeps handling the messages it is sent
SpecApproveFair == InitDatabase /\ [][NextApprove]_vars /\ WF_vars(NextApprove)

\* draft i has a post in the database and was published on the platform
Posted(i) ==
    /\ i \in DOMAIN hist
    /\ hist[i].post_id # NULL
    /\ \E k \in DOMAIN linkedin : linkedin[k].text = i

\* the post stored for draft i is marked published
Marked(i) ==
    /\ i \in DOMAIN hist
    /\ \E p \in posts : /\ Some(p.id) = hist[i].post_id
                        /\ p.posted_at # NULL
                        /\ p.linkedin_post_id # NULL

\* C25: when a pending draft is approved and its publication on LinkedIn
\* succeeds, the draft's post is eventually marked published (posted_at and
\* the platform's identifier set).
C25_ApprovedIsMarked == \A i \in 1..MaxDrafts : [](Posted(i) => <>Marked(i))

\* the number of times draft i was published on the platform
Publishes(i) == Cardinality({k \in DOMAIN linkedin : linkedin[k].text = i})

\* C30: a draft stored by /generate is published on LinkedIn at most once;
\* an approval whose publish call returns, with success or failure, or that
\* finds LinkedIn not connected, clears pending_post and pending_repo; an
\* approval that finds no pending draft publishes nothing and replies that
\* there is no pending post.
C30_ApprovalConsumesDraft ==
    [][/\ \A i \in DOMAIN hist' : Publishes(i)' <= 1
       /\ call'.op = "handle_approval" =>
            /\ call'.reply \in {Some(ReplyPosted), Some(ReplyFailed), Some(ReplyNotConnected)}
                 => user_data'[call'.chat_id] = NoUserData
            /\ user_data[call'.chat_id].pending_post = NULL
                 => /\ linkedin' = linkedin
                    /\ call'.reply = Some(ReplyNoPending)
                    /\ ~call'.published
    ]_vars

\* C30 witness: a chat whose draft was published approves again without a
\* new /generate and is told that nothing is pending.
C30_Witness ==
    /\ call.op = "handle_approval"
    /\ call.reply = Some(ReplyNoPending)
    /\ \E k \in DOMAIN linkedin : linkedin[k].chat_id = call.chat_id
    /\ Len(linkedin) = 1

====
